---- MODULE Spec2Model ----
(***************************************************************************)
(* A model of pyiso's Rock Ridge layer (src/src/pyiso/rockridge.py): the   *)
(* record codecs, the entry aggregator (parse loop and record()), the      *)
(* construction algorithm RockRidge.new and the query methods.             *)
(*                                                                         *)
(* Byte strings are sequences of naturals 0..255.  Python's None is the    *)
(* empty tuple and an optional object "Some(v)" is the one-element tuple   *)
(* <<v>>.  Every method that can raise returns a record with the fields    *)
(* raised / err and the object as the raise left it.  Python offsets are   *)
(* kept as written in the source (B(s, i) is s[i]).  struct's "=" formats  *)
(* are read on a little-endian host.                                       *)
(***************************************************************************)
EXTENDS Integers, Sequences, FiniteSets, TLC

VARIABLES
    rr,       \* the RockRidge entry object under test
    codec,    \* the record codec object under test: [kind, obj]
    made,     \* the call that initialized the object: [op, args]
    call,     \* the name of the last method called
    ret       \* what the last call returned or raised

vars == <<rr, codec, made, call, ret>>

-----------------------------------------------------------------------------
(* Python values                                                           *)

None == <<>>

Some(v) == <<v>>

IsNone(o) == o = <<>>

The(o) == o[1]

Min(a, b) == IF a < b THEN a ELSE b

Max(a, b) == IF a > b THEN a ELSE b

\* Python's normalisation of a slice bound i for a sequence of length n.
PyIndex(i, n) == IF i < 0 THEN Max(i + n, 0) ELSE Min(i, n)

\* s[lo:hi]
PySlice(s, lo, hi) ==
    LET l == PyIndex(lo, Len(s))
        h == PyIndex(hi, Len(s))
    IN  IF l < h THEN SubSeq(s, l + 1, h) ELSE <<>>

\* s[lo:]
PyFrom(s, lo) == PySlice(s, lo, Len(s))

\* s[:hi]
PyTo(s, hi) == PySlice(s, 0, hi)

\* s[i] for an index known to be in range
B(s, i) == s[i + 1]

\* x & (1 << k) != 0
Bit(x, k) == (x \div (2 ^ k)) % 2 = 1

\* x | (1 << k)
SetBit(x, k) == IF Bit(x, k) THEN x ELSE x + 2 ^ k

Ok(self) == [raised |-> FALSE, err |-> "", self |-> self]

Raise(self, why) == [raised |-> TRUE, err |-> why, self |-> self]

Bytes(v) == [raised |-> FALSE, err |-> "", val |-> v]

NoBytes(why) == [raised |-> TRUE, err |-> why, val |-> <<>>]

\* struct.unpack("=L", s[i:i+4])[0]
UnpackL(s, i) ==
    B(s, i) + 256 * B(s, i + 1) + 65536 * B(s, i + 2) + 16777216 * B(s, i + 3)

\* struct.pack("=L", x)
PackL(x) ==
    <<x % 256, (x \div 256) % 256, (x \div 65536) % 256, (x \div 16777216) % 256>>

\* utils.swab_32bit
swab_32bit(x) ==
    (x % 256) * 16777216 + ((x \div 256) % 256) * 65536
        + ((x \div 65536) % 256) * 256 + ((x \div 16777216) % 256)

\* struct.pack("=L", swab_32bit(x)): the four bytes of x, high byte first.
\* Taken from x itself, since swab_32bit(x) is above 2^31 for a low byte of x
\* of 128 and more.
PackSwabL(x) ==
    <<(x \div 16777216) % 256, (x \div 65536) % 256, (x \div 256) % 256, x % 256>>

\* struct.pack("=B", v) accepts 0..255 only
FitsB(v) == v >= 0 /\ v <= 255

\* The two-character tags as bytes.
Tag(t) ==
    CASE t = "SP" -> <<83, 80>>
      [] t = "RR" -> <<82, 82>>
      [] t = "CE" -> <<67, 69>>
      [] t = "PX" -> <<80, 88>>
      [] t = "PD" -> <<80, 68>>
      [] t = "ST" -> <<83, 84>>
      [] t = "ER" -> <<69, 82>>
      [] t = "ES" -> <<69, 83>>
      [] t = "PN" -> <<80, 78>>
      [] t = "SL" -> <<83, 76>>
      [] t = "NM" -> <<78, 77>>
      [] t = "CL" -> <<67, 76>>
      [] t = "PL" -> <<80, 76>>
      [] t = "RE" -> <<82, 69>>
      [] t = "TF" -> <<84, 70>>
      [] t = "SF" -> <<83, 70>>
      [] OTHER -> <<63, 63>>

SU_ENTRY_VERSION == 1

-----------------------------------------------------------------------------
(* RRSPRecord                                                              *)

RRSPRecord_init == [initialized |-> FALSE, bytes_to_skip |-> None]

RRSPRecord_length == 7

\* RRSPRecord_parse as it would be without the test of the check bytes.
RRSPRecord_parse_AnyCheckBytes(self, rrstr) ==
    IF self.initialized THEN Raise(self, "PyIsoException")
    ELSE IF Len(PySlice(rrstr, 2, 7)) # 5 THEN Raise(self, "struct.error")
    ELSE IF B(rrstr, 2) # RRSPRecord_length
         THEN Raise([self EXCEPT !.bytes_to_skip = B(rrstr, 6)], "PyIsoException")
    ELSE Ok([self EXCEPT !.bytes_to_skip = B(rrstr, 6), !.initialized = TRUE])

RRSPRecord_parse(self, rrstr) ==
    IF self.initialized THEN Raise(self, "PyIsoException")
    ELSE IF Len(PySlice(rrstr, 2, 7)) # 5 THEN Raise(self, "struct.error")
    ELSE LET su_len == B(rrstr, 2)
             check_byte1 == B(rrstr, 4)
             check_byte2 == B(rrstr, 5)
             s1 == [self EXCEPT !.bytes_to_skip = B(rrstr, 6)]
         IN  IF su_len # RRSPRecord_length THEN Raise(s1, "PyIsoException")
             ELSE IF check_byte1 # 190 \/ check_byte2 # 239
                  THEN Raise(s1, "PyIsoException")
             ELSE Ok([s1 EXCEPT !.initialized = TRUE])

RRSPRecord_new(self) ==
    IF self.initialized THEN Raise(self, "PyIsoException")
    ELSE Ok([self EXCEPT !.bytes_to_skip = 0, !.initialized = TRUE])

RRSPRecord_record(self) ==
    IF ~self.initialized THEN NoBytes("PyIsoException")
    ELSE Bytes(Tag("SP") \o <<RRSPRecord_length, SU_ENTRY_VERSION, 190, 239,
                              self.bytes_to_skip>>)

-----------------------------------------------------------------------------
(* RRRRRecord                                                              *)

RRRRRecord_init == [initialized |-> FALSE, rr_flags |-> None]

RRRRRecord_length == 5

RRRRRecord_parse(self, rrstr) ==
    IF self.initialized THEN Raise(self, "PyIsoException")
    ELSE IF Len(PySlice(rrstr, 2, 5)) # 3 THEN Raise(self, "struct.error")
    ELSE LET su_len == B(rrstr, 2)
             s1 == [self EXCEPT !.rr_flags = B(rrstr, 4)]
         IN  IF su_len # RRRRRecord_length THEN Raise(s1, "PyIsoException")
             ELSE Ok([s1 EXCEPT !.initialized = TRUE])

RRRRRecord_new(self) ==
    IF self.initialized THEN Raise(self, "PyIsoException")
    ELSE Ok([self EXCEPT !.rr_flags = 0, !.initialized = TRUE])

\* The bit of a field name; -1 for a name append_field rejects.
RRFieldBit(fieldname) ==
    CASE fieldname = "PX" -> 0
      [] fieldname = "PN" -> 1
      [] fieldname = "SL" -> 2
      [] fieldname = "NM" -> 3
      [] fieldname = "CL" -> 4
      [] fieldname = "PL" -> 5
      [] fieldname = "RE" -> 6
      [] fieldname = "TF" -> 7
      [] OTHER -> 0 - 1

RRRRRecord_append_field(self, fieldname) ==
    IF ~self.initialized THEN Raise(self, "PyIsoException")
    ELSE IF RRFieldBit(fieldname) < 0 THEN Raise(self, "PyIsoException")
    ELSE Ok([self EXCEPT !.rr_flags = SetBit(self.rr_flags, RRFieldBit(fieldname))])

RRRRRecord_record(self) ==
    IF ~self.initialized THEN NoBytes("PyIsoException")
    ELSE Bytes(Tag("RR") \o <<RRRRRecord_length, SU_ENTRY_VERSION, self.rr_flags>>)

-----------------------------------------------------------------------------
(* RRPXRecord                                                              *)

RRPXRecord_init ==
    [initialized |-> FALSE, posix_file_mode |-> None, posix_file_links |-> None,
     posix_user_id |-> None, posix_group_id |-> None,
     posix_serial_number |-> None]

\* RRPXRecord.length(rr_version)
RRPXRecord_length(rr_version) == IF rr_version = "1.09" THEN 36 ELSE 44

RRPXRecord_parse(self, rrstr) ==
    IF self.initialized THEN Raise(self, "PyIsoException")
    ELSE IF Len(PySlice(rrstr, 2, 4)) # 2 THEN Raise(self, "struct.error")
    ELSE LET su_len == B(rrstr, 2)
             filled(serial) ==
                 [self EXCEPT !.posix_file_mode = UnpackL(rrstr, 4),
                              !.posix_file_links = UnpackL(rrstr, 12),
                              !.posix_user_id = UnpackL(rrstr, 20),
                              !.posix_group_id = UnpackL(rrstr, 28),
                              !.posix_serial_number = serial,
                              !.initialized = TRUE]
         IN  IF su_len = 36
             THEN IF Len(PySlice(rrstr, 4, 36)) # 32 THEN Raise(self, "struct.error")
                  ELSE Ok(filled(0))
             ELSE IF su_len = 44
             THEN IF Len(PySlice(rrstr, 4, 44)) # 40 THEN Raise(self, "struct.error")
                  ELSE Ok(filled(UnpackL(rrstr, 36)))
             ELSE Raise(self, "PyIsoException")

\* 040555, 0120555 and 0100444
RRPXRecord_new(self, isdir, symlink_path) ==
    IF self.initialized THEN Raise(self, "PyIsoException")
    ELSE Ok([self EXCEPT
                !.posix_file_mode = IF isdir THEN 16749
                                    ELSE IF ~IsNone(symlink_path) THEN 41325
                                    ELSE 33060,
                !.posix_file_links = 1,
                !.posix_user_id = 0,
                !.posix_group_id = 0,
                !.posix_serial_number = 0,
                !.initialized = TRUE])

\* RRPXRecord.record(rr_version): the su_len byte is RRPXRecord.length() with
\* its default argument whatever rr_version is.
RRPXRecord_record(self, rr_version) ==
    IF ~self.initialized THEN NoBytes("PyIsoException")
    ELSE LET head == Tag("PX") \o <<RRPXRecord_length("1.09"), SU_ENTRY_VERSION>>
                 \o PackL(self.posix_file_mode)
                 \o PackSwabL(self.posix_file_mode)
                 \o PackL(self.posix_file_links)
                 \o PackSwabL(self.posix_file_links)
                 \o PackL(self.posix_user_id)
                 \o PackSwabL(self.posix_user_id)
                 \o PackL(self.posix_group_id)
                 \o PackSwabL(self.posix_group_id)
         IN  IF rr_version # "1.09"
             THEN Bytes(head \o PackL(self.posix_serial_number)
                             \o PackSwabL(self.posix_serial_number))
             ELSE Bytes(head)

-----------------------------------------------------------------------------
(* RRERRecord                                                              *)

RRERRecord_init ==
    [initialized |-> FALSE, ext_id |-> None, ext_des |-> None, ext_src |-> None]

RRERRecord_length(ext_id, ext_des, ext_src) ==
    8 + Len(ext_id) + Len(ext_des) + Len(ext_src)

RRERRecord_parse(self, rrstr) ==
    IF self.initialized THEN Raise(self, "PyIsoException")
    ELSE IF Len(PySlice(rrstr, 2, 8)) # 6 THEN Raise(self, "struct.error")
    ELSE LET len_id == B(rrstr, 4)
             len_des == B(rrstr, 5)
             len_src == B(rrstr, 6)
             tmp1 == 8 + len_id
             tmp2 == IF len_des > 0 THEN tmp1 + len_des ELSE tmp1
         IN  Ok([self EXCEPT
                    !.ext_id = PySlice(rrstr, 8, 8 + len_id),
                    !.ext_des = IF len_des > 0
                                THEN PySlice(rrstr, tmp1, tmp1 + len_des)
                                ELSE <<>>,
                    !.ext_src = PySlice(rrstr, tmp2, tmp2 + len_src),
                    !.initialized = TRUE])

RRERRecord_new(self, ext_id, ext_des, ext_src) ==
    IF self.initialized THEN Raise(self, "PyIsoException")
    ELSE Ok([self EXCEPT !.ext_id = ext_id, !.ext_des = ext_des,
                         !.ext_src = ext_src, !.initialized = TRUE])

RRERRecord_record(self) ==
    IF ~self.initialized THEN NoBytes("PyIsoException")
    ELSE LET l == RRERRecord_length(self.ext_id, self.ext_des, self.ext_src)
         IN  IF ~FitsB(l) \/ ~FitsB(Len(self.ext_id)) \/ ~FitsB(Len(self.ext_des))
                \/ ~FitsB(Len(self.ext_src))
             THEN NoBytes("struct.error")
             ELSE Bytes(Tag("ER") \o <<l, SU_ENTRY_VERSION, Len(self.ext_id),
                                       Len(self.ext_des), Len(self.ext_src), 1>>
                        \o self.ext_id \o self.ext_des \o self.ext_src)

-----------------------------------------------------------------------------
(* RRESRecord                                                              *)

RRESRecord_init == [initialized |-> FALSE, extension_sequence |-> None]

RRESRecord_length == 5

RRESRecord_parse(self, rrstr) ==
    IF self.initialized THEN Raise(self, "PyIsoException")
    ELSE IF Len(PySlice(rrstr, 2, 5)) # 3 THEN Raise(self, "struct.error")
    ELSE LET su_len == B(rrstr, 2)
             s1 == [self EXCEPT !.extension_sequence = B(rrstr, 4)]
         IN  IF su_len # RRESRecord_length THEN Raise(s1, "PyIsoException")
             ELSE Ok([s1 EXCEPT !.initialized = TRUE])

RRESRecord_record(self) ==
    IF ~self.initialized THEN NoBytes("PyIsoException")
    ELSE Bytes(Tag("ES") \o <<RRESRecord_length, SU_ENTRY_VERSION,
                              self.extension_sequence>>)

-----------------------------------------------------------------------------
(* RRPNRecord                                                              *)

RRPNRecord_init == [initialized |-> FALSE, dev_t_high |-> None, dev_t_low |-> None]

RRPNRecord_length == 20

RRPNRecord_parse(self, rrstr) ==
    IF self.initialized THEN Raise(self, "PyIsoException")
    ELSE IF Len(PySlice(rrstr, 2, 20)) # 18 THEN Raise(self, "struct.error")
    ELSE LET su_len == B(rrstr, 2)
         IN  IF su_len # RRPNRecord_length THEN Raise(self, "PyIsoException")
             ELSE Ok([self EXCEPT !.dev_t_high = UnpackL(rrstr, 4),
                                  !.dev_t_low = UnpackL(rrstr, 12),
                                  !.initialized = TRUE])

RRPNRecord_record(self) ==
    IF ~self.initialized THEN NoBytes("PyIsoException")
    ELSE Bytes(Tag("PN") \o <<RRPNRecord_length, SU_ENTRY_VERSION>>
               \o PackL(self.dev_t_high) \o PackSwabL(self.dev_t_high)
               \o PackL(self.dev_t_low) \o PackSwabL(self.dev_t_low))

-----------------------------------------------------------------------------
(* RRSLRecord                                                              *)

Dot == <<46>>

DotDot == <<46, 46>>

Slash == <<47>>

RRSLRecord_init == [initialized |-> FALSE, symlink_components |-> <<>>, flags |-> 0]

RECURSIVE PySplitFrom(_, _, _)
\* The pieces of s from index from on, cut at the separator positions seps.
PySplitFrom(s, from, seps) ==
    IF seps = {} THEN <<SubSeq(s, from, Len(s))>>
    ELSE LET k == CHOOSE i \in seps : \A j \in seps : i <= j
         IN  <<SubSeq(s, from, k - 1)>> \o PySplitFrom(s, k + 1, seps \ {k})

\* s.split(sep) for a one-byte separator: the list of the pieces of s.
PySplit(s, sep) == PySplitFrom(s, 1, {i \in 1..Len(s) : s[i] = sep})

RRSLRecord_component_length(symlink_component) ==
    IF symlink_component \in {Dot, DotDot, Slash} THEN 2
    ELSE 2 + Len(symlink_component)

RECURSIVE RRSLRecord_length(_)
RRSLRecord_length(symlink_components) ==
    IF symlink_components = <<>> THEN 5
    ELSE RRSLRecord_length(Tail(symlink_components))
         + RRSLRecord_component_length(Head(symlink_components))

RECURSIVE SLParseLoop(_, _, _, _, _)
\* The while loop of RRSLRecord.parse; comps is self.symlink_components so far.
SLParseLoop(rrstr, cr_offset, data_len, name, comps) ==
    IF data_len <= 0 THEN [raised |-> FALSE, err |-> "", comps |-> comps]
    ELSE IF Len(PySlice(rrstr, cr_offset, cr_offset + 2)) # 2
    THEN [raised |-> TRUE, err |-> "struct.error", comps |-> comps]
    ELSE LET cr_flags == B(rrstr, cr_offset)
             len_cp == B(rrstr, cr_offset + 1)
             off == cr_offset + 2
             special == Bit(cr_flags, 1) \/ Bit(cr_flags, 2) \/ Bit(cr_flags, 3)
             name1 == IF Bit(cr_flags, 1) THEN name \o Dot
                      ELSE IF Bit(cr_flags, 2) THEN name \o DotDot
                      ELSE IF Bit(cr_flags, 3) THEN name \o Slash
                      ELSE name \o PySlice(rrstr, off, off + len_cp)
         IN  IF cr_flags \notin {0, 1, 2, 4, 8}
             THEN [raised |-> TRUE, err |-> "PyIsoException", comps |-> comps]
             ELSE IF special /\ len_cp # 0
             THEN [raised |-> TRUE, err |-> "PyIsoException", comps |-> comps]
             ELSE IF special /\ name # <<>>
             THEN [raised |-> TRUE, err |-> "PyIsoException", comps |-> comps]
             ELSE IF ~Bit(cr_flags, 0)
             THEN SLParseLoop(rrstr, off + len_cp, data_len - 2 - len_cp, <<>>,
                              Append(comps, name1))
             ELSE SLParseLoop(rrstr, off + len_cp, data_len - 2 - len_cp, name1,
                              comps)

RRSLRecord_parse(self, rrstr) ==
    IF self.initialized THEN Raise(self, "PyIsoException")
    ELSE IF Len(PySlice(rrstr, 2, 5)) # 3 THEN Raise(self, "struct.error")
    ELSE LET su_len == B(rrstr, 2)
             s1 == [self EXCEPT !.flags = B(rrstr, 4)]
             loop == SLParseLoop(rrstr, 5, su_len - 5, <<>>, s1.symlink_components)
             s2 == [s1 EXCEPT !.symlink_components = loop.comps]
         IN  IF loop.raised THEN Raise(s2, loop.err)
             ELSE Ok([s2 EXCEPT !.initialized = TRUE])

RRSLRecord_new(self, symlink_path) ==
    IF self.initialized THEN Raise(self, "PyIsoException")
    ELSE IF ~IsNone(symlink_path)
    THEN Ok([self EXCEPT !.symlink_components = PySplit(The(symlink_path), 47),
                         !.initialized = TRUE])
    ELSE Ok([self EXCEPT !.initialized = TRUE])

RRSLRecord_current_length(self) == RRSLRecord_length(self.symlink_components)

RRSLRecord_add_component(self, symlink_comp) ==
    IF ~self.initialized THEN Raise(self, "PyIsoException")
    ELSE IF RRSLRecord_current_length(self) + 2 + Len(symlink_comp) > 255
    THEN Raise(self, "PyIsoException")
    ELSE Ok([self EXCEPT !.symlink_components = Append(@, symlink_comp)])

RECURSIVE SLJoin(_)
\* The loop of RRSLRecord.__str__: each component, then '/' unless it is '/'.
SLJoin(comps) ==
    IF comps = <<>> THEN <<>>
    ELSE Head(comps) \o (IF Head(comps) # Slash THEN Slash ELSE <<>>)
         \o SLJoin(Tail(comps))

\* RRSLRecord.__str__ of an initialized record
RRSLRecord_str(self) == PyTo(SLJoin(self.symlink_components), 0 - 1)

RECURSIVE SLEncodeComps(_)
\* The component loop of RRSLRecord.record; raised when a length does not fit
\* a byte.
SLEncodeComps(comps) ==
    IF comps = <<>> THEN Bytes(<<>>)
    ELSE LET comp == Head(comps)
             rest == SLEncodeComps(Tail(comps))
             this == IF comp = Dot THEN <<2, 0>>
                     ELSE IF comp = DotDot THEN <<4, 0>>
                     ELSE IF comp = Slash THEN <<8, 0>>
                     ELSE <<0, Len(comp)>> \o comp
         IN  IF comp \notin {Dot, DotDot, Slash} /\ ~FitsB(Len(comp))
             THEN NoBytes("struct.error")
             ELSE IF rest.raised THEN rest
             ELSE Bytes(this \o rest.val)

RRSLRecord_record(self) ==
    IF ~self.initialized THEN NoBytes("PyIsoException")
    ELSE LET l == RRSLRecord_length(self.symlink_components)
             body == SLEncodeComps(self.symlink_components)
         IN  IF ~FitsB(l) THEN NoBytes("struct.error")
             ELSE IF body.raised THEN body
             ELSE Bytes(Tag("SL") \o <<l, SU_ENTRY_VERSION, self.flags>> \o body.val)

-----------------------------------------------------------------------------
(* RRNMRecord                                                              *)

RRNMRecord_init ==
    [initialized |-> FALSE, posix_name_flags |-> None, posix_name |-> <<>>]

RRNMRecord_length(rr_name) == 5 + Len(rr_name)

RRNMRecord_parse(self, rrstr) ==
    IF self.initialized THEN Raise(self, "PyIsoException")
    ELSE IF Len(PySlice(rrstr, 2, 5)) # 3 THEN Raise(self, "struct.error")
    ELSE LET su_len == B(rrstr, 2)
             flags == B(rrstr, 4)
             s1 == [self EXCEPT !.posix_name_flags = flags]
             name_len == su_len - 5
         IN  IF (flags % 8) \notin {0, 1, 2, 4} THEN Raise(s1, "PyIsoException")
             ELSE IF name_len # 0
             THEN IF Bit(flags, 1) \/ Bit(flags, 2) \/ Bit(flags, 5)
                  THEN Raise(s1, "PyIsoException")
                  ELSE Ok([s1 EXCEPT
                              !.posix_name = @ \o PySlice(rrstr, 5, 5 + name_len),
                              !.initialized = TRUE])
             ELSE Ok([s1 EXCEPT !.initialized = TRUE])

\* RRNMRecord_new as it would be without the test of initialized.
RRNMRecord_new_Again(self, rr_name) ==
    Ok([self EXCEPT !.posix_name = rr_name, !.posix_name_flags = 0,
                    !.initialized = TRUE])

RRNMRecord_new(self, rr_name) ==
    IF self.initialized THEN Raise(self, "PyIsoException")
    ELSE Ok([self EXCEPT !.posix_name = rr_name, !.posix_name_flags = 0,
                         !.initialized = TRUE])

RRNMRecord_record(self) ==
    IF ~self.initialized THEN NoBytes("PyIsoException")
    ELSE IF ~FitsB(RRNMRecord_length(self.posix_name)) THEN NoBytes("struct.error")
    ELSE Bytes(Tag("NM") \o <<RRNMRecord_length(self.posix_name), SU_ENTRY_VERSION,
                              self.posix_name_flags>> \o self.posix_name)

RRNMRecord_set_continued(self) ==
    IF ~self.initialized THEN Raise(self, "PyIsoException")
    ELSE Ok([self EXCEPT !.posix_name_flags = SetBit(@, 0)])

-----------------------------------------------------------------------------
(* RRCLRecord and RRPLRecord                                               *)

RRCLRecord_init == [initialized |-> FALSE, child_log_block_num |-> None]

RRCLRecord_length == 12

RRCLRecord_parse(self, rrstr) ==
    IF self.initialized THEN Raise(self, "PyIsoException")
    ELSE IF Len(PySlice(rrstr, 2, 12)) # 10 THEN Raise(self, "struct.error")
    ELSE LET su_len == B(rrstr, 2)
             child_log_block_num_le == UnpackL(rrstr, 4)
             child_log_block_num_be == UnpackL(rrstr, 8)
         IN  IF su_len # RRCLRecord_length THEN Raise(self, "PyIsoException")
             ELSE IF child_log_block_num_le # swab_32bit(child_log_block_num_be)
             THEN Raise(self, "PyIsoException")
             ELSE Ok([self EXCEPT !.child_log_block_num = child_log_block_num_le,
                                  !.initialized = TRUE])

RRCLRecord_new(self) ==
    IF self.initialized THEN Raise(self, "PyIsoException")
    ELSE Ok([self EXCEPT !.child_log_block_num = 0, !.initialized = TRUE])

RRCLRecord_record(self) ==
    IF ~self.initialized THEN NoBytes("PyIsoException")
    ELSE Bytes(Tag("CL") \o <<RRCLRecord_length, SU_ENTRY_VERSION>>
               \o PackL(self.child_log_block_num)
               \o PackSwabL(self.child_log_block_num))

RRCLRecord_set_log_block_num(self, bl) ==
    IF ~self.initialized THEN Raise(self, "PyIsoException")
    ELSE Ok([self EXCEPT !.child_log_block_num = bl])

RRPLRecord_init == [initialized |-> FALSE, parent_log_block_num |-> None]

RRPLRecord_length == 12

RRPLRecord_parse(self, rrstr) ==
    IF self.initialized THEN Raise(self, "PyIsoException")
    ELSE IF Len(PySlice(rrstr, 2, 12)) # 10 THEN Raise(self, "struct.error")
    ELSE LET su_len == B(rrstr, 2)
             parent_log_block_num_le == UnpackL(rrstr, 4)
             parent_log_block_num_be == UnpackL(rrstr, 8)
         IN  IF su_len # RRPLRecord_length THEN Raise(self, "PyIsoException")
             ELSE IF parent_log_block_num_le # swab_32bit(parent_log_block_num_be)
             THEN Raise(self, "PyIsoException")
             ELSE Ok([self EXCEPT !.parent_log_block_num = parent_log_block_num_le,
                                  !.initialized = TRUE])

RRPLRecord_new(self) ==
    IF self.initialized THEN Raise(self, "PyIsoException")
    ELSE Ok([self EXCEPT !.parent_log_block_num = 0, !.initialized = TRUE])

RRPLRecord_record(self) ==
    IF ~self.initialized THEN NoBytes("PyIsoException")
    ELSE Bytes(Tag("PL") \o <<RRPLRecord_length, SU_ENTRY_VERSION>>
               \o PackL(self.parent_log_block_num)
               \o PackSwabL(self.parent_log_block_num))

RRPLRecord_set_log_block_num(self, bl) ==
    IF ~self.initialized THEN Raise(self, "PyIsoException")
    ELSE Ok([self EXCEPT !.parent_log_block_num = bl])

-----------------------------------------------------------------------------
(* RRTFRecord.  The seven timestamps creation_time, access_time,           *)
(* modification_time, attribute_change_time, backup_time, expiration_time  *)
(* and effective_time are the tuple times, in the order of their flag bits *)
(* 0..6.  A date object of the dates module is its type and the bytes it   *)
(* holds: DirectoryRecordDate takes 7 bytes, VolumeDescriptorDate 17.      *)

DateLen(datetype) == IF datetype = "VolumeDescriptorDate" THEN 17 ELSE 7

\* datetype().parse(s): a date decoded from exactly DateLen bytes
Date_parse(datetype, s) ==
    IF Len(s) # DateLen(datetype) THEN Raise(None, "struct.error")
    ELSE Ok(Some([datetype |-> datetype, raw |-> s]))

\* datetype().new(): a date set by the library; its bytes stand for "now"
Date_new(datetype) ==
    Some([datetype |-> datetype, raw |-> [i \in 1..DateLen(datetype) |-> 0]])

Date_record(d) == d.raw

RRTFRecord_init ==
    [initialized |-> FALSE, time_flags |-> None,
     times |-> <<None, None, None, None, None, None, None>>]

\* The number of flag bits i..6 set in time_flags.
RECURSIVE TFCount(_, _)
TFCount(time_flags, i) ==
    IF i > 6 THEN 0
    ELSE (IF Bit(time_flags, i) THEN 1 ELSE 0) + TFCount(time_flags, i + 1)

RRTFRecord_length(time_flags) ==
    LET tf_each_size == IF Bit(time_flags, 7) THEN 17 ELSE 7
    IN  5 + tf_each_size * TFCount(time_flags, 0)

RECURSIVE TFParseTimes(_, _, _, _, _)
\* The seven "if self.time_flags & (1 << i)" steps of RRTFRecord.parse from
\* step i on, tmp being the offset reached.
TFParseTimes(self, rrstr, datetype, i, tmp) ==
    IF i > 6 THEN Ok([self EXCEPT !.initialized = TRUE])
    ELSE IF ~Bit(self.time_flags, i)
    THEN TFParseTimes(self, rrstr, datetype, i + 1, tmp)
    ELSE LET tflen == DateLen(datetype)
             d == Date_parse(datetype, PySlice(rrstr, tmp, tmp + tflen))
         IN  IF d.raised
             THEN Raise([self EXCEPT !.times[i + 1] =
                             Some([datetype |-> datetype, raw |-> <<>>])], d.err)
             ELSE TFParseTimes([self EXCEPT !.times[i + 1] = d.self], rrstr,
                               datetype, i + 1, tmp + tflen)

RRTFRecord_parse(self, rrstr) ==
    IF self.initialized THEN Raise(self, "PyIsoException")
    ELSE IF Len(PySlice(rrstr, 2, 5)) # 3 THEN Raise(self, "struct.error")
    ELSE LET su_len == B(rrstr, 2)
             s1 == [self EXCEPT !.time_flags = B(rrstr, 4)]
             datetype == IF Bit(s1.time_flags, 7) THEN "VolumeDescriptorDate"
                         ELSE "DirectoryRecordDate"
         IN  IF su_len < 5 THEN Raise(s1, "PyIsoException")
             ELSE TFParseTimes(s1, rrstr, datetype, 0, 5)

RRTFRecord_new(self, time_flags) ==
    IF self.initialized THEN Raise(self, "PyIsoException")
    ELSE LET datetype == IF Bit(time_flags, 7) THEN "VolumeDescriptorDate"
                         ELSE "DirectoryRecordDate"
         IN  Ok([self EXCEPT
                    !.time_flags = time_flags,
                    !.times = [i \in 1..7 |-> IF Bit(time_flags, i - 1)
                                              THEN Date_new(datetype)
                                              ELSE None],
                    !.initialized = TRUE])

RECURSIVE TFEncodeTimes(_, _)
\* The records of the timestamps that are not None, from index i on.
TFEncodeTimes(times, i) ==
    IF i > 7 THEN <<>>
    ELSE (IF IsNone(times[i]) THEN <<>> ELSE Date_record(The(times[i])))
         \o TFEncodeTimes(times, i + 1)

RRTFRecord_record(self) ==
    IF ~self.initialized THEN NoBytes("PyIsoException")
    ELSE Bytes(Tag("TF") \o <<RRTFRecord_length(self.time_flags), SU_ENTRY_VERSION,
                              self.time_flags>> \o TFEncodeTimes(self.times, 1))

-----------------------------------------------------------------------------
(* RRSFRecord and RRRERecord                                               *)

RRSFRecord_init ==
    [initialized |-> FALSE, virtual_file_size_high |-> None,
     virtual_file_size_low |-> None, table_depth |-> None]

RRSFRecord_length == 21

RRSFRecord_parse(self, rrstr) ==
    IF self.initialized THEN Raise(self, "PyIsoException")
    ELSE IF Len(PySlice(rrstr, 2, 21)) # 19 THEN Raise(self, "struct.error")
    ELSE LET su_len == B(rrstr, 2)
             s1 == [self EXCEPT !.table_depth = B(rrstr, 20)]
         IN  IF su_len # RRSFRecord_length THEN Raise(s1, "PyIsoException")
             ELSE Ok([s1 EXCEPT !.virtual_file_size_high = UnpackL(rrstr, 4),
                                !.virtual_file_size_low = UnpackL(rrstr, 12),
                                !.initialized = TRUE])

RRSFRecord_record(self) ==
    IF ~self.initialized THEN NoBytes("PyIsoException")
    ELSE Bytes(Tag("SF") \o <<RRSFRecord_length, SU_ENTRY_VERSION>>
               \o PackL(self.virtual_file_size_high)
               \o PackSwabL(self.virtual_file_size_high)
               \o PackL(self.virtual_file_size_low)
               \o PackSwabL(self.virtual_file_size_low)
               \o <<self.table_depth>>)

RRRERecord_init == [initialized |-> FALSE]

RRRERecord_length == 4

RRRERecord_parse(self, rrstr) ==
    IF self.initialized THEN Raise(self, "PyIsoException")
    ELSE IF Len(PySlice(rrstr, 2, 4)) # 2 THEN Raise(self, "struct.error")
    ELSE IF B(rrstr, 2) # 4 THEN Raise(self, "PyIsoException")
    ELSE Ok([self EXCEPT !.initialized = TRUE])

RRRERecord_new(self) ==
    IF self.initialized THEN Raise(self, "PyIsoException")
    ELSE Ok([self EXCEPT !.initialized = TRUE])

RRRERecord_record(self) ==
    IF ~self.initialized THEN NoBytes("PyIsoException")
    ELSE Bytes(Tag("RE") \o <<RRRERecord_length, SU_ENTRY_VERSION>>)

-----------------------------------------------------------------------------
(* RockRidgeBase, RockRidgeContinuation and RRCERecord                     *)

\* RockRidgeBase.__init__; bytes_to_skip and su_entry_version are the
\* attributes _parse and new add later.
RockRidgeBase_init ==
    [sp_record |-> None, rr_record |-> None, ce_record |-> None,
     px_record |-> None, er_record |-> None, es_record |-> None,
     pn_record |-> None, sl_records |-> <<>>, nm_record |-> None,
     cl_record |-> None, pl_record |-> None, tf_record |-> None,
     sf_record |-> None, re_record |-> None, child_link |-> None,
     parent_link |-> None, initialized |-> FALSE,
     bytes_to_skip |-> None, su_entry_version |-> None,
     orig_extent_loc |-> None, new_extent_loc |-> None,
     continue_offset |-> None, continue_length |-> None]

\* RockRidgeContinuation.__init__
RockRidgeContinuation_init ==
    [RockRidgeBase_init EXCEPT !.orig_extent_loc = None, !.new_extent_loc = None,
                               !.continue_offset = 0, !.continue_length = 0,
                               !.su_entry_version = 1, !.initialized = TRUE]

\* A RockRidge object has no __init__ of its own.
RockRidge_init == RockRidgeBase_init

\* extent_location as it would be if a parsed origin came before the
\* assigned extent.
RockRidgeContinuation_extent_location_OriginFirst(self) ==
    IF IsNone(self.new_extent_loc) /\ IsNone(self.orig_extent_loc)
    THEN [raised |-> TRUE, err |-> "PyIsoException", val |-> 0]
    ELSE IF IsNone(self.orig_extent_loc)
    THEN [raised |-> FALSE, err |-> "", val |-> The(self.new_extent_loc)]
    ELSE [raised |-> FALSE, err |-> "", val |-> The(self.orig_extent_loc)]

RockRidgeContinuation_extent_location(self) ==
    IF IsNone(self.new_extent_loc) /\ IsNone(self.orig_extent_loc)
    THEN [raised |-> TRUE, err |-> "PyIsoException", val |-> 0]
    ELSE IF IsNone(self.new_extent_loc)
    THEN [raised |-> FALSE, err |-> "", val |-> The(self.orig_extent_loc)]
    ELSE [raised |-> FALSE, err |-> "", val |-> The(self.new_extent_loc)]

RockRidgeContinuation_offset(self) == self.continue_offset

RockRidgeContinuation_length(self) == self.continue_length

RockRidgeContinuation_increment_length(self, length) ==
    [self EXCEPT !.continue_length = @ + length]

RRCERecord_init == [initialized |-> FALSE, continuation_entry |-> None]

RRCERecord_length == 28

\* RRCERecord_parse as it would be if it did not keep the extent it read.
RRCERecord_parse_NoOrigin(self, rrstr) ==
    IF self.initialized THEN Raise(self, "PyIsoException")
    ELSE IF Len(PySlice(rrstr, 2, 28)) # 26 THEN Raise(self, "struct.error")
    ELSE IF B(rrstr, 2) # RRCERecord_length THEN Raise(self, "PyIsoException")
    ELSE Ok([self EXCEPT
               !.continuation_entry =
                   Some(RockRidgeContinuation_increment_length(
                            [RockRidgeContinuation_init EXCEPT
                                !.continue_offset = UnpackL(rrstr, 12)],
                            UnpackL(rrstr, 20))),
               !.initialized = TRUE])

RRCERecord_parse(self, rrstr) ==
    IF self.initialized THEN Raise(self, "PyIsoException")
    ELSE IF Len(PySlice(rrstr, 2, 28)) # 26 THEN Raise(self, "struct.error")
    ELSE LET su_len == B(rrstr, 2)
             bl_cont_area_le == UnpackL(rrstr, 4)
             offset_cont_area_le == UnpackL(rrstr, 12)
             len_cont_area_le == UnpackL(rrstr, 20)
             c1 == [RockRidgeContinuation_init EXCEPT
                       !.orig_extent_loc = Some(bl_cont_area_le),
                       !.continue_offset = offset_cont_area_le]
         IN  IF su_len # RRCERecord_length THEN Raise(self, "PyIsoException")
             ELSE Ok([self EXCEPT
                        !.continuation_entry =
                            Some(RockRidgeContinuation_increment_length(
                                     c1, len_cont_area_le)),
                        !.initialized = TRUE])

RRCERecord_new(self) ==
    IF self.initialized THEN Raise(self, "PyIsoException")
    ELSE Ok([self EXCEPT !.continuation_entry = Some(RockRidgeContinuation_init),
                         !.initialized = TRUE])

\* RRCERecord.add_record: setattr on the continuation, then increment_length.
RRCERecord_add_record(self, record_name, obj, length) ==
    [self EXCEPT !.continuation_entry =
        Some(RockRidgeContinuation_increment_length(
                 [The(self.continuation_entry) EXCEPT ![record_name] = obj],
                 length))]

RRCERecord_record(self) ==
    IF ~self.initialized THEN NoBytes("PyIsoException")
    ELSE LET loc == RockRidgeContinuation_extent_location(The(self.continuation_entry))
             offset == RockRidgeContinuation_offset(The(self.continuation_entry))
             cont_len == RockRidgeContinuation_length(The(self.continuation_entry))
         IN  IF loc.raised THEN NoBytes(loc.err)
             ELSE Bytes(Tag("CE") \o <<RRCERecord_length, SU_ENTRY_VERSION>>
                        \o PackL(loc.val) \o PackSwabL(loc.val)
                        \o PackL(offset) \o PackSwabL(offset)
                        \o PackL(cont_len) \o PackSwabL(cont_len))

-----------------------------------------------------------------------------
(* RockRidgeBase.record                                                    *)

\* ret += r, where a raise on either side ends the method.
Cat(a, b) ==
    IF a.raised THEN a
    ELSE IF b.raised THEN b
    ELSE Bytes(a.val \o b.val)

\* "if self.x_record is not None: ret += self.x_record.record()"
OptRecord(slot, Rec(_)) == IF IsNone(slot) THEN Bytes(<<>>) ELSE Rec(The(slot))

\* px_record.record() is called without rr_version, hence with "1.09".
PXDefaultRecord(px) == RRPXRecord_record(px, "1.09")

RECURSIVE SLRecords(_)
\* "for sl_record in self.sl_records: ret += sl_record.record()"
SLRecords(sl_records) ==
    IF sl_records = <<>> THEN Bytes(<<>>)
    ELSE Cat(RRSLRecord_record(Head(sl_records)), SLRecords(Tail(sl_records)))

\* RockRidgeBase_record as it would be with RE written before PL.
RockRidgeBase_record_REBeforePL(self) ==
    IF ~self.initialized THEN NoBytes("PyIsoException")
    ELSE Cat(OptRecord(self.sp_record, RRSPRecord_record),
         Cat(OptRecord(self.rr_record, RRRRRecord_record),
         Cat(OptRecord(self.nm_record, RRNMRecord_record),
         Cat(OptRecord(self.px_record, PXDefaultRecord),
         Cat(SLRecords(self.sl_records),
         Cat(OptRecord(self.tf_record, RRTFRecord_record),
         Cat(OptRecord(self.cl_record, RRCLRecord_record),
         Cat(OptRecord(self.re_record, RRRERecord_record),
         Cat(OptRecord(self.pl_record, RRPLRecord_record),
         Cat(OptRecord(self.ce_record, RRCERecord_record),
             OptRecord(self.er_record, RRERRecord_record)))))))))))

RockRidgeBase_record(self) ==
    IF ~self.initialized THEN NoBytes("PyIsoException")
    ELSE Cat(OptRecord(self.sp_record, RRSPRecord_record),
         Cat(OptRecord(self.rr_record, RRRRRecord_record),
         Cat(OptRecord(self.nm_record, RRNMRecord_record),
         Cat(OptRecord(self.px_record, PXDefaultRecord),
         Cat(SLRecords(self.sl_records),
         Cat(OptRecord(self.tf_record, RRTFRecord_record),
         Cat(OptRecord(self.cl_record, RRCLRecord_record),
         Cat(OptRecord(self.pl_record, RRPLRecord_record),
         Cat(OptRecord(self.re_record, RRRERecord_record),
         Cat(OptRecord(self.ce_record, RRCERecord_record),
             OptRecord(self.er_record, RRERRecord_record)))))))))))

-----------------------------------------------------------------------------
(* RockRidgeBase._parse                                                    *)

\* "self.x_record = RRxRecord(); self.x_record.parse(record[offset:])": the
\* slot holds the new object whether or not its parse raised.
StoreParsed(self, slot, res) ==
    IF res.raised THEN Raise([self EXCEPT ![slot] = Some(res.self)], res.err)
    ELSE Ok([self EXCEPT ![slot] = Some(res.self)])

\* The if/elif chain on rtype of one loop iteration; rest is record[offset:].
ParseDispatch(self, rtype, rest, su_len, left, is_first_dir_record_of_root) ==
    CASE rtype = Tag("SP") ->
            IF left < 7 \/ ~is_first_dir_record_of_root
            THEN Raise(self, "PyIsoException")
            ELSE StoreParsed(self, "sp_record", RRSPRecord_parse(RRSPRecord_init, rest))
      [] rtype = Tag("RR") ->
            StoreParsed(self, "rr_record", RRRRRecord_parse(RRRRRecord_init, rest))
      [] rtype = Tag("CE") ->
            StoreParsed(self, "ce_record", RRCERecord_parse(RRCERecord_init, rest))
      [] rtype = Tag("PX") ->
            StoreParsed(self, "px_record", RRPXRecord_parse(RRPXRecord_init, rest))
      [] rtype = Tag("PD") -> Ok(self)
      [] rtype = Tag("ST") ->
            IF su_len # 4 THEN Raise(self, "PyIsoException") ELSE Ok(self)
      [] rtype = Tag("ER") ->
            StoreParsed(self, "er_record", RRERRecord_parse(RRERRecord_init, rest))
      [] rtype = Tag("ES") ->
            StoreParsed(self, "es_record", RRESRecord_parse(RRESRecord_init, rest))
      [] rtype = Tag("PN") ->
            StoreParsed(self, "pn_record", RRPNRecord_parse(RRPNRecord_init, rest))
      [] rtype = Tag("SL") ->
            LET res == RRSLRecord_parse(RRSLRecord_init, rest)
            IN  IF res.raised THEN Raise(self, res.err)
                ELSE Ok([self EXCEPT !.sl_records = Append(@, res.self)])
      [] rtype = Tag("NM") ->
            StoreParsed(self, "nm_record", RRNMRecord_parse(RRNMRecord_init, rest))
      [] rtype = Tag("CL") ->
            StoreParsed(self, "cl_record", RRCLRecord_parse(RRCLRecord_init, rest))
      [] rtype = Tag("PL") ->
            StoreParsed(self, "pl_record", RRPLRecord_parse(RRPLRecord_init, rest))
      [] rtype = Tag("RE") ->
            StoreParsed(self, "re_record", RRRERecord_parse(RRRERecord_init, rest))
      [] rtype = Tag("TF") ->
            StoreParsed(self, "tf_record", RRTFRecord_parse(RRTFRecord_init, rest))
      [] rtype = Tag("SF") ->
            StoreParsed(self, "sf_record", RRSFRecord_parse(RRSFRecord_init, rest))
      [] OTHER -> Raise(self, "PyIsoException")

\* The end of a loop iteration whose dispatch gave d: "offset += su_len;
\* left -= su_len", unless the record's parse raised.  kind is "break",
\* "raise" or "continue".
ParseAdvance(d, offset, left, su_len) ==
    IF d.raised
    THEN [kind |-> "raise", err |-> d.err, self |-> d.self, offset |-> offset,
          left |-> left]
    ELSE [kind |-> "continue", err |-> "", self |-> d.self,
          offset |-> offset + su_len, left |-> left - su_len]

\* One iteration of the "while True" loop, with the entry, offset and left as
\* the iteration leaves them.
ParseStep(self, record, offset, left, is_first_dir_record_of_root) ==
    LET out(kind, err) ==
            [kind |-> kind, err |-> err, self |-> self, offset |-> offset,
             left |-> left]
    IN  IF left = 0 THEN out("break", "")
        ELSE IF left = 1
        THEN IF offset >= Len(record) THEN out("raise", "IndexError")
             ELSE IF B(record, offset) # 0 THEN out("raise", "PyIsoException")
             ELSE out("break", "")
        ELSE IF left < 4 THEN out("raise", "PyIsoException")
        ELSE IF Len(PySlice(record, offset, offset + 4)) # 4
        THEN out("raise", "struct.error")
        ELSE IF B(record, offset + 3) # SU_ENTRY_VERSION
        THEN out("raise", "PyIsoException")
        ELSE ParseAdvance(
                 ParseDispatch(self, PySlice(record, offset, offset + 2),
                               PyFrom(record, offset), B(record, offset + 2),
                               left, is_first_dir_record_of_root),
                 offset, left, B(record, offset + 2))

RECURSIVE ParseLoop(_, _, _, _, _)
\* The loop after the iteration that gave st, run to its end.  An iteration
\* that continues without moving (su_len = 0) repeats for ever: diverged.
ParseLoopFrom(st, record, offset, is_first_dir_record_of_root) ==
    IF st.kind = "break"
    THEN [raised |-> FALSE, diverged |-> FALSE, err |-> "", self |-> st.self]
    ELSE IF st.kind = "raise"
    THEN [raised |-> TRUE, diverged |-> FALSE, err |-> st.err, self |-> st.self]
    ELSE IF st.offset = offset
    THEN [raised |-> FALSE, diverged |-> TRUE, err |-> "", self |-> st.self]
    ELSE ParseLoop(st.self, record, st.offset, st.left,
                   is_first_dir_record_of_root)

ParseLoop(self, record, offset, left, is_first_dir_record_of_root) ==
    ParseLoopFrom(ParseStep(self, record, offset, left,
                            is_first_dir_record_of_root),
                  record, offset, is_first_dir_record_of_root)

\* "self.su_entry_version = 1; self.initialized = True" once the loop ended
\* without raising.
ParseFinish(loop) ==
    IF loop.raised \/ loop.diverged THEN loop
    ELSE [loop EXCEPT !.self = [loop.self EXCEPT !.su_entry_version = 1,
                                                 !.initialized = TRUE]]

RockRidgeBase_parse(self, record, bytes_to_skip, is_first_dir_record_of_root) ==
    ParseFinish(ParseLoop([self EXCEPT !.bytes_to_skip = bytes_to_skip], record,
                          0 + bytes_to_skip, Len(record),
                          is_first_dir_record_of_root))

\* RockRidgeContinuation.parse
RockRidgeContinuation_parse(self, record, bytes_to_skip) ==
    RockRidgeBase_parse([self EXCEPT !.new_extent_loc = None], record,
                        bytes_to_skip, FALSE)

\* RockRidge.parse
RockRidge_parse(self, record, is_first_dir_record_of_root, bytes_to_skip) ==
    IF self.initialized
    THEN [raised |-> TRUE, diverged |-> FALSE, err |-> "PyIsoException",
          self |-> self]
    ELSE RockRidgeBase_parse(self, record, bytes_to_skip,
                             is_first_dir_record_of_root)

-----------------------------------------------------------------------------
(* RockRidge.new                                                           *)

ALLOWED_DR_SIZE == 254

TF_FLAGS == 14

\* "RRIP_1991A"
EXT_ID ==
    <<82, 82, 73, 80, 95, 49, 57, 57, 49, 65>>

\* "THE ROCK RIDGE INTERCHANGE PROTOCOL PROVIDES SUPPORT FOR POSIX FILE SYSTEM
\* SEMANTICS"
EXT_DES ==
    <<84, 72, 69, 32, 82, 79, 67, 75, 32, 82, 73, 68, 71, 69, 32, 73, 78,
      84, 69, 82, 67, 72, 65, 78, 71, 69, 32, 80, 82, 79, 84, 79, 67, 79,
      76, 32, 80, 82, 79, 86, 73, 68, 69, 83, 32, 83, 85, 80, 80, 79, 82,
      84, 32, 70, 79, 82, 32, 80, 79, 83, 73, 88, 32, 70, 73, 76, 69, 32,
      83, 89, 83, 84, 69, 77, 32, 83, 69, 77, 65, 78, 84, 73, 67, 83>>

\* "PLEASE CONTACT DISC PUBLISHER FOR SPECIFICATION SOURCE.  SEE PUBLISHER
\* IDENTIFIER IN PRIMARY VOLUME DESCRIPTOR FOR CONTACT INFORMATION."
EXT_SRC ==
    <<80, 76, 69, 65, 83, 69, 32, 67, 79, 78, 84, 65, 67, 84, 32, 68, 73,
      83, 67, 32, 80, 85, 66, 76, 73, 83, 72, 69, 82, 32, 70, 79, 82, 32,
      83, 80, 69, 67, 73, 70, 73, 67, 65, 84, 73, 79, 78, 32, 83, 79, 85,
      82, 67, 69, 46, 32, 32, 83, 69, 69, 32, 80, 85, 66, 76, 73, 83, 72,
      69, 82, 32, 73, 68, 69, 78, 84, 73, 70, 73, 69, 82, 32, 73, 78, 32,
      80, 82, 73, 77, 65, 82, 89, 32, 86, 79, 76, 85, 77, 69, 32, 68, 69,
      83, 67, 82, 73, 80, 84, 79, 82, 32, 70, 79, 82, 32, 67, 79, 78, 84,
      65, 67, 84, 32, 73, 78, 70, 79, 82, 77, 65, 84, 73, 79, 78, 46>>

\* The parameters of RockRidge.new.
Args(first, name, isdir, path, version, child, reloc, parent, len) ==
    [is_first_dir_record_of_root |-> first, rr_name |-> name, isdir |-> isdir,
     symlink_path |-> path, rr_version |-> version, rr_relocated_child |-> child,
     rr_relocated |-> reloc, rr_relocated_parent |-> parent, curr_dr_len |-> len]

\* tmp_dr_len: the length if every requested record were placed inline.
NewEstimate(a) ==
    a.curr_dr_len
    + (IF a.is_first_dir_record_of_root THEN RRSPRecord_length ELSE 0)
    + (IF a.rr_version = "1.09" THEN RRRRRecord_length ELSE 0)
    + (IF ~IsNone(a.rr_name) THEN RRNMRecord_length(The(a.rr_name)) ELSE 0)
    + RRPXRecord_length("1.09")
    + (IF ~IsNone(a.symlink_path)
       THEN RRSLRecord_length(PySplit(The(a.symlink_path), 47)) ELSE 0)
    + RRTFRecord_length(TF_FLAGS)
    + (IF a.rr_relocated_child THEN RRCLRecord_length ELSE 0)
    + (IF a.rr_relocated THEN RRRERecord_length ELSE 0)
    + (IF a.rr_relocated_parent THEN RRPLRecord_length ELSE 0)
    + (IF a.is_first_dir_record_of_root
       THEN RRERRecord_length(EXT_ID, EXT_DES, EXT_SRC) ELSE 0)

\* The state of a call of new: the entry, this_dr_len and whether it raised.
NewSt(self, this_dr_len) ==
    [raised |-> FALSE, err |-> "", self |-> self, this_dr_len |-> this_dr_len]

NewRaise(st, why) == [st EXCEPT !.raised = TRUE, !.err = why]

\* self.ce_record.continuation_entry
ContOf(self) == The(The(self.ce_record).continuation_entry)

SetCont(self, c) ==
    [self EXCEPT !.ce_record =
        Some([The(self.ce_record) EXCEPT !.continuation_entry = Some(c)])]

\* NewPreallocate as it would be with ">=" for ">": a continuation already
\* for an estimate of exactly ALLOWED_DR_SIZE.
NewPreallocate_AtLimit(st, a) ==
    IF NewEstimate(a) >= ALLOWED_DR_SIZE
    THEN [st EXCEPT !.self.ce_record = Some(RRCERecord_new(RRCERecord_init).self),
                    !.this_dr_len = @ + RRCERecord_length]
    ELSE st

\* "if tmp_dr_len > ALLOWED_DR_SIZE": the CE record and its 28 bytes
NewPreallocate(st, a) ==
    IF NewEstimate(a) > ALLOWED_DR_SIZE
    THEN [st EXCEPT !.self.ce_record = Some(RRCERecord_new(RRCERecord_init).self),
                    !.this_dr_len = @ + RRCERecord_length]
    ELSE st

\* NewPlace as it would be with ">=" for ">": a record that ends exactly at
\* ALLOWED_DR_SIZE goes to the continuation.
NewPlace_AtLimit(st, slot, obj, thislen) ==
    IF st.raised THEN st
    ELSE IF st.this_dr_len + thislen >= ALLOWED_DR_SIZE
    THEN IF IsNone(st.self.ce_record) THEN NewRaise(st, "AttributeError")
         ELSE [st EXCEPT !.self.ce_record =
                   Some(RRCERecord_add_record(The(st.self.ce_record), slot,
                                              Some(obj), thislen))]
    ELSE [st EXCEPT !.self[slot] = Some(obj), !.this_dr_len = @ + thislen]

\* The placement shared by SP, RR, PX, TF, CL, RE, PL and ER: inline when
\* the record fits, else into the continuation (which must exist).
NewPlace(st, slot, obj, thislen) ==
    IF st.raised THEN st
    ELSE IF st.this_dr_len + thislen > ALLOWED_DR_SIZE
    THEN IF IsNone(st.self.ce_record) THEN NewRaise(st, "AttributeError")
         ELSE [st EXCEPT !.self.ce_record =
                   Some(RRCERecord_add_record(The(st.self.ce_record), slot,
                                              Some(obj), thislen))]
    ELSE [st EXCEPT !.self[slot] = Some(obj), !.this_dr_len = @ + thislen]

\* "if self.rr_record is not None: self.rr_record.append_field(name)"
NewAppendField(st, fieldname) ==
    IF st.raised \/ IsNone(st.self.rr_record) THEN st
    ELSE [st EXCEPT !.self.rr_record =
              Some(RRRRRecord_append_field(The(st.self.rr_record), fieldname).self)]

NewSP(st, a) ==
    IF a.is_first_dir_record_of_root
    THEN NewPlace(st, "sp_record", RRSPRecord_new(RRSPRecord_init).self,
                  RRSPRecord_length)
    ELSE st

NewRR(st, a) ==
    IF a.rr_version = "1.09"
    THEN NewPlace(st, "rr_record", RRRRRecord_new(RRRRRecord_init).self,
                  RRRRRecord_length)
    ELSE st

\* The NM record: whole when it fits, else cut at len_here with the rest in
\* the continuation's NM record.
NewNM(st, a) ==
    IF st.raised \/ IsNone(a.rr_name) THEN st
    ELSE LET rr_name == The(a.rr_name)
             len_here == ALLOWED_DR_SIZE - st.this_dr_len - 5
             here == PyTo(rr_name, len_here)
             there == PyFrom(rr_name, len_here)
             nm_here == RRNMRecord_set_continued(
                            RRNMRecord_new(RRNMRecord_init, here).self).self
             s1 == [st EXCEPT !.self.nm_record = Some(nm_here),
                              !.this_dr_len = @ + RRNMRecord_length(here)]
             c1 == [ContOf(s1.self) EXCEPT
                       !.nm_record = Some(RRNMRecord_new(RRNMRecord_init, there).self)]
             placed ==
                 IF st.this_dr_len + RRNMRecord_length(rr_name) > ALLOWED_DR_SIZE
                 THEN IF IsNone(s1.self.ce_record) THEN NewRaise(s1, "AttributeError")
                      ELSE [s1 EXCEPT !.self =
                               SetCont(s1.self,
                                   RockRidgeContinuation_increment_length(
                                       c1, RRNMRecord_length(there)))]
                 ELSE [st EXCEPT
                          !.self.nm_record =
                              Some(RRNMRecord_new(RRNMRecord_init, rr_name).self),
                          !.this_dr_len = @ + RRNMRecord_length(rr_name)]
         IN  NewAppendField(placed, "NM")

NewPX(st, a) ==
    NewAppendField(
        NewPlace(st, "px_record",
                 RRPXRecord_new(RRPXRecord_init, a.isdir, a.symlink_path).self,
                 RRPXRecord_length("1.09")),
        "PX")

\* curr_sl is the last SL record of the list meta_record_len stands for:
\* where = "dr" is self.sl_records with this_dr_len, where = "ce" is the
\* continuation's sl_records with the continuation's length.
SLList(self, where) ==
    IF where = "dr" THEN self.sl_records ELSE ContOf(self).sl_records

CurrSL(self, where) == SLList(self, where)[Len(SLList(self, where))]

\* curr_sl changed in place
SetCurrSL(self, where, sl) ==
    IF where = "dr"
    THEN [self EXCEPT !.sl_records[Len(self.sl_records)] = sl]
    ELSE SetCont(self, [ContOf(self) EXCEPT
                            !.sl_records[Len(ContOf(self).sl_records)] = sl])

\* meta_record_len.increment_length(n)
MetaIncrement(st, where, n) ==
    IF where = "dr" THEN [st EXCEPT !.this_dr_len = @ + n]
    ELSE [st EXCEPT !.self =
             SetCont(st.self,
                     RockRidgeContinuation_increment_length(ContOf(st.self), n))]

\* "curr_sl = RRSLRecord(); curr_sl.new(comp);
\*  self.ce_record.continuation_entry.sl_records.append(curr_sl);
\*  meta_record_len.increment_length(5 + component_length(comp))"
NewSLInCont(st, comp) ==
    IF IsNone(st.self.ce_record) THEN NewRaise(st, "AttributeError")
    ELSE LET sl == RRSLRecord_new(RRSLRecord_init, Some(comp)).self
             s1 == [st EXCEPT !.self =
                       SetCont(st.self, [ContOf(st.self) EXCEPT
                                            !.sl_records = Append(@, sl)])]
         IN  MetaIncrement(s1, "ce", 5 + RRSLRecord_component_length(comp))

RECURSIVE NewSLLoop(_, _, _)
\* "for comp in symlink_path.split('/')" over the components left.
NewSLLoop(st, where, comps) ==
    IF st.raised \/ comps = <<>> THEN st
    ELSE LET comp == Head(comps)
             curr_sl == CurrSL(st.self, where)
             cur == RRSLRecord_current_length(curr_sl)
             len_here == 255 - cur - 2
             add(c) ==
                 LET r == RRSLRecord_add_component(curr_sl, c)
                     s1 == [st EXCEPT !.self = SetCurrSL(st.self, where, r.self)]
                 IN  IF r.raised THEN NewRaise(st, r.err)
                     ELSE MetaIncrement(s1, where, RRSLRecord_component_length(c))
         IN  IF cur + 2 + Len(comp) < 255
             THEN NewSLLoop(add(comp), where, Tail(comps))
             ELSE IF cur + 2 + 1 < 255
             THEN LET s1 == add(PyTo(comp, len_here))
                  IN  IF s1.raised THEN s1
                      ELSE NewSLLoop(NewSLInCont(s1, PyFrom(comp, len_here)), "ce",
                                     Tail(comps))
             ELSE NewSLLoop(NewSLInCont(st, comp), "ce", Tail(comps))

NewSL(st, a) ==
    IF st.raised \/ IsNone(a.symlink_path) THEN st
    ELSE LET curr_sl == RRSLRecord_new(RRSLRecord_init, None).self
             comps == PySplit(The(a.symlink_path), 47)
             inline == st.this_dr_len + 5 + 2 + 1 < ALLOWED_DR_SIZE
             where == IF inline THEN "dr" ELSE "ce"
             s1 == IF inline
                   THEN [st EXCEPT !.self.sl_records = Append(@, curr_sl)]
                   ELSE [st EXCEPT !.self =
                            SetCont(st.self, [ContOf(st.self) EXCEPT
                                                 !.sl_records = Append(@, curr_sl)])]
         IN  IF ~inline /\ IsNone(st.self.ce_record)
             THEN NewRaise(st, "AttributeError")
             ELSE NewAppendField(
                      NewSLLoop(MetaIncrement(s1, where, 5), where, comps), "SL")

\* NewTF as it would be with the creation timestamp enabled as well.
NewTF_WithCreation(st, a) ==
    NewAppendField(
        NewPlace(st, "tf_record",
                 RRTFRecord_new(RRTFRecord_init, TF_FLAGS + 1).self,
                 RRTFRecord_length(TF_FLAGS + 1)),
        "TF")

NewTF(st, a) ==
    NewAppendField(
        NewPlace(st, "tf_record", RRTFRecord_new(RRTFRecord_init, TF_FLAGS).self,
                 RRTFRecord_length(TF_FLAGS)),
        "TF")

NewCL(st, a) ==
    IF a.rr_relocated_child
    THEN NewPlace(st, "cl_record", RRCLRecord_new(RRCLRecord_init).self,
                  RRCLRecord_length)
    ELSE st

NewRE(st, a) ==
    IF a.rr_relocated
    THEN NewPlace(st, "re_record", RRRERecord_new(RRRERecord_init).self,
                  RRRERecord_length)
    ELSE st

NewPL(st, a) ==
    IF a.rr_relocated_parent
    THEN NewPlace(st, "pl_record", RRPLRecord_new(RRPLRecord_init).self,
                  RRPLRecord_length)
    ELSE st

NewER(st, a) ==
    IF a.is_first_dir_record_of_root
    THEN NewPlace(st, "er_record",
                  RRERRecord_new(RRERRecord_init, EXT_ID, EXT_DES, EXT_SRC).self,
                  RRERRecord_length(EXT_ID, EXT_DES, EXT_SRC))
    ELSE st

\* The end of new once every record is placed: "self.initialized = True;
\* this_dr_len.increment_length(this_dr_len.length() % 2); return
\* this_dr_len.length()".  before_pad is this_dr_len before the padding.
NewFinish(st, est) ==
    IF st.raised
    THEN [raised |-> TRUE, err |-> st.err, self |-> st.self, val |-> 0,
          tmp_dr_len |-> est, before_pad |-> st.this_dr_len]
    ELSE [raised |-> FALSE, err |-> "",
          self |-> [st.self EXCEPT !.initialized = TRUE],
          val |-> st.this_dr_len + (st.this_dr_len % 2),
          tmp_dr_len |-> est, before_pad |-> st.this_dr_len]

\* The records in the order new places them.
NewRecords(st, a) ==
    NewER(NewPL(NewRE(NewCL(NewTF(NewSL(NewPX(NewNM(NewRR(NewSP(
        NewPreallocate(st, a), a), a), a), a), a), a), a), a), a), a)

\* RockRidge.new(a): the entry as the call leaves it, the value returned
\* (val), tmp_dr_len, and this_dr_len as it stood before the final padding.
RockRidge_new(self, a) ==
    IF self.initialized
       \/ (a.rr_version # "1.09" /\ a.rr_version # "1.12")
    THEN [raised |-> TRUE, err |-> "PyIsoException", self |-> self, val |-> 0,
          tmp_dr_len |-> 0, before_pad |-> 0]
    ELSE NewFinish(NewRecords(NewSt([self EXCEPT !.su_entry_version = 1],
                                    a.curr_dr_len), a),
                   NewEstimate(a))

-----------------------------------------------------------------------------
(* RockRidge queries                                                       *)

Val(v) == [raised |-> FALSE, err |-> "", val |-> v]

Exc(why) == [raised |-> TRUE, err |-> why, val |-> <<>>]

\* "ce_record is not None and ce_record.continuation_entry.x is not None"
HasCont(self) == ~IsNone(self.ce_record)

\* RockRidge_name as it would be without the continuation's part.
RockRidge_name_PrimaryOnly(self) ==
    IF ~self.initialized THEN Exc("PyIsoException")
    ELSE Val(IF ~IsNone(self.nm_record) THEN The(self.nm_record).posix_name
             ELSE <<>>)

RockRidge_name(self) ==
    IF ~self.initialized THEN Exc("PyIsoException")
    ELSE Val((IF ~IsNone(self.nm_record) THEN The(self.nm_record).posix_name
              ELSE <<>>)
             \o (IF HasCont(self) /\ ~IsNone(ContOf(self).nm_record)
                 THEN The(ContOf(self).nm_record).posix_name
                 ELSE <<>>))

RockRidge_is_symlink(self) ==
    IF ~self.initialized THEN Exc("PyIsoException")
    ELSE IF self.sl_records # <<>> THEN Val(TRUE)
    ELSE IF HasCont(self) /\ ContOf(self).sl_records # <<>> THEN Val(TRUE)
    ELSE Val(FALSE)

RECURSIVE SLPathJoin(_)
\* "for rec in sl_records: recstr = str(rec); ret += recstr;
\*  if recstr != '/': ret += '/'"
SLPathJoin(sl_records) ==
    IF sl_records = <<>> THEN <<>>
    ELSE LET recstr == RRSLRecord_str(Head(sl_records))
         IN  recstr \o (IF recstr # Slash THEN Slash ELSE <<>>)
             \o SLPathJoin(Tail(sl_records))

RockRidge_symlink_path(self) ==
    IF ~self.initialized THEN Exc("PyIsoException")
    ELSE IF self.sl_records = <<>>
            \/ (HasCont(self) /\ ContOf(self).sl_records = <<>>)
    THEN Exc("PyIsoException")
    ELSE Val(PyTo(SLPathJoin(self.sl_records)
                  \o (IF HasCont(self) THEN SLPathJoin(ContOf(self).sl_records)
                      ELSE <<>>),
                  0 - 1))

-----------------------------------------------------------------------------
(* RockRidge link counts and relocation links                              *)

\* "x.posix_file_links += by" on the PX record of the primary entry, and when
\* it has none on the PX record of the continuation; a continuation without
\* a PX record is an attribute access on None.
FileLinksAdd(self, by) ==
    IF ~self.initialized THEN Raise(self, "PyIsoException")
    ELSE IF IsNone(self.px_record)
    THEN IF IsNone(self.ce_record) THEN Raise(self, "PyIsoException")
         ELSE IF IsNone(ContOf(self).px_record)
         THEN Raise(self, "AttributeError")
         ELSE Ok(SetCont(self,
                 [ContOf(self) EXCEPT !.px_record =
                     Some([The(@) EXCEPT !.posix_file_links = @ + by])]))
    ELSE Ok([self EXCEPT !.px_record =
                Some([The(@) EXCEPT !.posix_file_links = @ + by])])

RockRidge_add_to_file_links(self) == FileLinksAdd(self, 1)

RockRidge_remove_from_file_links(self) == FileLinksAdd(self, 0 - 1)

RockRidge_has_child_link_record(self) ==
    IF ~self.initialized THEN Exc("PyIsoException")
    ELSE Val(~IsNone(self.cl_record)
             \/ (HasCont(self) /\ ~IsNone(ContOf(self).cl_record)))

RockRidge_relocated_record(self) ==
    IF ~self.initialized THEN Exc("PyIsoException")
    ELSE Val(~IsNone(self.re_record)
             \/ (HasCont(self) /\ ~IsNone(ContOf(self).re_record)))

\* The result of set_log_block_num on the record of a slot, put back in the
\* slot of the entry e.
LinkStored(e, slot, res) ==
    [raised |-> res.raised, err |-> res.err,
     self |-> [e EXCEPT ![slot] = Some(res.self)]]

\* LinkStored for the continuation of self.
LinkStoredInCont(self, res) ==
    [raised |-> res.raised, err |-> res.err, self |-> SetCont(self, res.self)]

\* update_child_link as it would be if it looked at the primary entry only.
RockRidge_update_child_link_PrimaryOnly(self) ==
    IF ~self.initialized THEN Raise(self, "PyIsoException")
    ELSE IF IsNone(self.child_link) THEN Raise(self, "PyIsoException")
    ELSE IF ~IsNone(self.cl_record)
    THEN LinkStored(self, "cl_record",
                    RRCLRecord_set_log_block_num(The(self.cl_record),
                                                 The(self.child_link)))
    ELSE Raise(self, "PyIsoException")

RockRidge_update_child_link(self) ==
    IF ~self.initialized THEN Raise(self, "PyIsoException")
    ELSE IF IsNone(self.child_link) THEN Raise(self, "PyIsoException")
    ELSE IF ~IsNone(self.cl_record)
    THEN LinkStored(self, "cl_record",
             RRCLRecord_set_log_block_num(The(self.cl_record),
                                          The(self.child_link)))
    ELSE IF HasCont(self) /\ ~IsNone(ContOf(self).cl_record)
    THEN LinkStoredInCont(self,
             LinkStored(ContOf(self), "cl_record",
                 RRCLRecord_set_log_block_num(The(ContOf(self).cl_record),
                                              The(self.child_link))))
    ELSE Raise(self, "PyIsoException")

RockRidge_update_parent_link(self) ==
    IF ~self.initialized THEN Raise(self, "PyIsoException")
    ELSE IF IsNone(self.parent_link) THEN Raise(self, "PyIsoException")
    ELSE IF ~IsNone(self.pl_record)
    THEN LinkStored(self, "pl_record",
             RRPLRecord_set_log_block_num(The(self.pl_record),
                                          The(self.parent_link)))
    ELSE IF HasCont(self) /\ ~IsNone(ContOf(self).pl_record)
    THEN LinkStoredInCont(self,
             LinkStored(ContOf(self), "pl_record",
                 RRPLRecord_set_log_block_num(The(ContOf(self).pl_record),
                                              The(self.parent_link))))
    ELSE Raise(self, "PyIsoException")

RockRidge_child_link_block_num(self) ==
    IF ~self.initialized THEN Exc("PyIsoException")
    ELSE IF ~IsNone(self.cl_record)
    THEN Val(The(self.cl_record).child_log_block_num)
    ELSE IF HasCont(self) /\ ~IsNone(ContOf(self).cl_record)
    THEN Val(The(ContOf(self).cl_record).child_log_block_num)
    ELSE Exc("PyIsoException")

-----------------------------------------------------------------------------
(* The inputs of RockRidge.new                                             *)

\* Bounds of the inputs.
MaxNameLen == 255

MaxComps == 2

\* A name of n bytes, no two of its first 255 bytes equal.
NameOf(n) == [i \in 1..n |-> 1 + ((i - 1) % 255)]

Names == {None} \cup {Some(NameOf(n)) : n \in 0..MaxNameLen}

\* A path component of k letters.
Run(k) == [i \in 1..k |-> 97 + (i % 26)]

\* Component lengths on both sides of the limits of one SL record, and 138,
\* with which the estimate of a short record is exactly ALLOWED_DR_SIZE.
CompLens == {1, 138, 200, 245, 248, 300}

Comps == {<<>>, Dot, DotDot} \cup {Run(k) : k \in CompLens}

RECURSIVE JoinPath(_)
\* '/'.join(comps)
JoinPath(comps) ==
    IF Len(comps) = 1 THEN comps[1]
    ELSE comps[1] \o Slash \o JoinPath(Tail(comps))

\* The paths of up to MaxComps components, and two with a component longer
\* than two SL records.
Paths ==
    {JoinPath(cs) : cs \in UNION {[1..n -> Comps] : n \in 1..MaxComps}}
    \cup {Run(520), JoinPath(<<Run(1), Run(520)>>)}

Versions == {"1.09", "1.12"}

\* Directory record lengths before the Rock Ridge fields: 34 is a short
\* record; 216 and 220 leave 0 bytes and less for the inline part of a split
\* name; 222 leaves no room for the RR record after the CE record.
NewInputs ==
    {Args(first, name, FALSE, None, v, rel, rel, rel, 34) :
        first \in BOOLEAN, name \in Names, v \in Versions, rel \in BOOLEAN}
    \cup {Args(FALSE, Some(NameOf(n)), FALSE, None, v, FALSE, FALSE, FALSE, c) :
        n \in {0, 3, 4, 5, MaxNameLen}, v \in Versions, c \in {216, 220}}
    \cup {Args(FALSE, Some(NameOf(3)), FALSE, Some(p), v, FALSE, FALSE, FALSE, c) :
        p \in Paths, v \in Versions, c \in {34, 216}}
    \cup {Args(first, Some(NameOf(3)), isdir, path, v, child, rel, parent, 34) :
        first \in BOOLEAN, isdir \in BOOLEAN, path \in {None, Some(Run(1))},
        v \in Versions \cup {"1.10"}, child \in BOOLEAN, rel \in BOOLEAN,
        parent \in BOOLEAN}
    \cup {Args(FALSE, Some(NameOf(3)), FALSE, path, v, FALSE, FALSE, FALSE, 222) :
        path \in {None, Some(Run(1))}, v \in Versions}

-----------------------------------------------------------------------------
(* The inputs of parse: System Use areas made of sample records            *)

MaxRecs == 2

\* A record with a header that agrees with its payload.
Rec(tag, payload) == Tag(tag) \o <<4 + Len(payload), SU_ENTRY_VERSION>> \o payload

\* A 32-bit value in both byte orders.
Both(x) == PackL(x) \o PackSwabL(x)

S_SP == Rec("SP", <<190, 239, 0>>)

S_RR == Rec("RR", <<137>>)

S_CE == Rec("CE", Both(24) \o Both(0) \o Both(33))

S_PX == Rec("PX", Both(33060) \o Both(1) \o Both(0) \o Both(0))

S_PX44 == Rec("PX", Both(16749) \o Both(2) \o Both(0) \o Both(0) \o Both(5))

S_ER == Rec("ER", <<2, 1, 1, 1, 65, 66, 67, 68>>)

S_ES == Rec("ES", <<0>>)

S_PN == Rec("PN", Both(1) \o Both(2))

S_SL == Rec("SL", <<0, 0, 1, 97>>)

S_SL2 == Rec("SL", <<0, 4, 0>>)

S_NM == Rec("NM", <<0, 102, 111, 111>>)

S_NM2 == Rec("NM", <<0, 98, 97>>)

S_CL == Rec("CL", Both(30))

S_PL == Rec("PL", Both(31))

S_TF == Rec("TF", <<14>> \o [i \in 1..21 |-> i])

S_SF == Rec("SF", Both(0) \o Both(7) \o <<1>>)

S_RE == Rec("RE", <<>>)

S_PD == Rec("PD", <<>>)

S_ST == Rec("ST", <<>>)

\* Records parse must refuse: a version other than 1 and an unknown tag; and
\* a PD record that declares length 0.
S_BadVersion == Tag("RR") \o <<5, 2, 0>>

S_Unknown == Rec("ZZ", <<>>)

S_PD0 == Tag("PD") \o <<0, SU_ENTRY_VERSION>>

\* A PN record whose big-endian halves are not its little-endian halves.
S_PNSwapped == Rec("PN", PackL(1) \o PackL(1) \o PackL(2) \o PackL(2))

Samples ==
    {S_SP, S_RR, S_CE, S_PX, S_PX44, S_ER, S_ES, S_PN, S_SL, S_SL2, S_NM,
     S_NM2, S_CL, S_PL, S_TF, S_SF, S_RE, S_PD, S_ST, S_BadVersion, S_Unknown,
     S_PD0}

RECURSIVE Concat(_)
Concat(ss) == IF ss = <<>> THEN <<>> ELSE Head(ss) \o Concat(Tail(ss))

Areas == {Concat(ss) : ss \in UNION {[1..n -> Samples] : n \in 0..MaxRecs}}

ParseArgs(record, first, skip) ==
    [record |-> record, is_first_dir_record_of_root |-> first,
     bytes_to_skip |-> skip]

\* SP records with a wrong check byte, declaring 8 bytes, and cut to 6 bytes,
\* alone and behind a well-formed record.
BadSPs ==
    {pre \o b : pre \in {<<>>, S_NM2},
                b \in {Rec("SP", <<190, 238, 0>>), Rec("SP", <<190, 239, 0, 0>>),
                       <<83, 80, 7, 1, 190, 239>>}}

\* The continuation data handed to RockRidgeContinuation.parse.
ContAreas ==
    {S_SP, S_NM2, S_SL, S_PX \o S_SL, S_CL \o S_PL, S_NM2 \o S_SP}

\* Every area as the first record of the root; the one-record areas also
\* elsewhere, with a pad byte, and behind skipped bytes; and the PN record
\* with unequal halves.
ParseInputs ==
    {ParseArgs(b, TRUE, 0) : b \in Areas}
    \cup {ParseArgs(b \o pad, first, 0) :
            b \in Samples \cup {<<>>}, pad \in {<<>>, <<0>>, <<1>>, <<0, 0>>},
            first \in BOOLEAN}
    \cup {ParseArgs(<<0>> \o b, TRUE, 1) : b \in Samples \cup {<<>>}}
    \cup {ParseArgs(S_PNSwapped, TRUE, 0)}
    \cup {ParseArgs(b, first, 0) : b \in BadSPs, first \in BOOLEAN}

-----------------------------------------------------------------------------
(* The record classes by type: what RRxRecord(), x.parse, x.new, x.record  *)
(* and RRxRecord.length are for each of the fourteen classes.              *)

RecordTypes ==
    {"SP", "RR", "CE", "PX", "ER", "ES", "PN", "SL", "NM", "CL", "PL", "TF",
     "SF", "RE"}

\* RRxRecord()
Record_init(t) ==
    CASE t = "SP" -> RRSPRecord_init [] t = "RR" -> RRRRRecord_init
      [] t = "CE" -> RRCERecord_init [] t = "PX" -> RRPXRecord_init
      [] t = "ER" -> RRERRecord_init [] t = "ES" -> RRESRecord_init
      [] t = "PN" -> RRPNRecord_init [] t = "SL" -> RRSLRecord_init
      [] t = "NM" -> RRNMRecord_init [] t = "CL" -> RRCLRecord_init
      [] t = "PL" -> RRPLRecord_init [] t = "TF" -> RRTFRecord_init
      [] t = "SF" -> RRSFRecord_init [] t = "RE" -> RRRERecord_init

\* x.parse(rrstr)
Record_parse(t, self, rrstr) ==
    CASE t = "SP" -> RRSPRecord_parse(self, rrstr)
      [] t = "RR" -> RRRRRecord_parse(self, rrstr)
      [] t = "CE" -> RRCERecord_parse(self, rrstr)
      [] t = "PX" -> RRPXRecord_parse(self, rrstr)
      [] t = "ER" -> RRERRecord_parse(self, rrstr)
      [] t = "ES" -> RRESRecord_parse(self, rrstr)
      [] t = "PN" -> RRPNRecord_parse(self, rrstr)
      [] t = "SL" -> RRSLRecord_parse(self, rrstr)
      [] t = "NM" -> RRNMRecord_parse(self, rrstr)
      [] t = "CL" -> RRCLRecord_parse(self, rrstr)
      [] t = "PL" -> RRPLRecord_parse(self, rrstr)
      [] t = "TF" -> RRTFRecord_parse(self, rrstr)
      [] t = "SF" -> RRSFRecord_parse(self, rrstr)
      [] t = "RE" -> RRRERecord_parse(self, rrstr)

\* The classes with a new method; ES, PN and SF have none.
NewTypes == RecordTypes \ {"ES", "PN", "SF"}

\* x.new(...), a being the tuple of the arguments the class takes.
Record_new(t, self, a) ==
    CASE t = "SP" -> RRSPRecord_new(self)
      [] t = "RR" -> RRRRRecord_new(self)
      [] t = "CE" -> RRCERecord_new(self)
      [] t = "PX" -> RRPXRecord_new(self, a[1], a[2])
      [] t = "ER" -> RRERRecord_new(self, a[1], a[2], a[3])
      [] t = "SL" -> RRSLRecord_new(self, a[1])
      [] t = "NM" -> RRNMRecord_new(self, a[1])
      [] t = "CL" -> RRCLRecord_new(self)
      [] t = "PL" -> RRPLRecord_new(self)
      [] t = "TF" -> RRTFRecord_new(self, a[1])
      [] t = "RE" -> RRRERecord_new(self)

\* x.record(); the PX record takes the Rock Ridge version.
Record_record(t, self, rr_version) ==
    CASE t = "SP" -> RRSPRecord_record(self)
      [] t = "RR" -> RRRRRecord_record(self)
      [] t = "CE" -> RRCERecord_record(self)
      [] t = "PX" -> RRPXRecord_record(self, rr_version)
      [] t = "ER" -> RRERRecord_record(self)
      [] t = "ES" -> RRESRecord_record(self)
      [] t = "PN" -> RRPNRecord_record(self)
      [] t = "SL" -> RRSLRecord_record(self)
      [] t = "NM" -> RRNMRecord_record(self)
      [] t = "CL" -> RRCLRecord_record(self)
      [] t = "PL" -> RRPLRecord_record(self)
      [] t = "TF" -> RRTFRecord_record(self)
      [] t = "SF" -> RRSFRecord_record(self)
      [] t = "RE" -> RRRERecord_record(self)

\* RRxRecord.length(...), the static method, handed what an initialized
\* object holds.
Record_length(t, self, rr_version) ==
    CASE t = "SP" -> RRSPRecord_length
      [] t = "RR" -> RRRRRecord_length
      [] t = "CE" -> RRCERecord_length
      [] t = "PX" -> RRPXRecord_length(rr_version)
      [] t = "ER" -> RRERRecord_length(self.ext_id, self.ext_des, self.ext_src)
      [] t = "ES" -> RRESRecord_length
      [] t = "PN" -> RRPNRecord_length
      [] t = "SL" -> RRSLRecord_length(self.symlink_components)
      [] t = "NM" -> RRNMRecord_length(self.posix_name)
      [] t = "CL" -> RRCLRecord_length
      [] t = "PL" -> RRPLRecord_length
      [] t = "TF" -> RRTFRecord_length(self.time_flags)
      [] t = "SF" -> RRSFRecord_length
      [] t = "RE" -> RRRERecord_length

\* The setters of a class: RR append_field, NM set_continued, CL and PL
\* set_log_block_num, SL add_component; u is <<method argument>>.
SetterTypes == {"RR", "NM", "CL", "PL", "SL"}

Record_set(t, self, u) ==
    CASE t = "RR" -> RRRRRecord_append_field(self, u[1])
      [] t = "NM" -> RRNMRecord_set_continued(self)
      [] t = "CL" -> RRCLRecord_set_log_block_num(self, u[1])
      [] t = "PL" -> RRPLRecord_set_log_block_num(self, u[1])
      [] t = "SL" -> RRSLRecord_add_component(self, u[1])

-----------------------------------------------------------------------------
(* The inputs of the record classes                                        *)

S_SLCont == Rec("SL", <<0, 1, 1, 97, 0, 1, 98>>)

S_NMCont == Rec("NM", <<1, 102>>)

S_TFLong == Rec("TF", <<129>> \o [i \in 1..17 |-> i])

\* Byte strings a conforming writer produces, by type.
WellFormed(t) ==
    CASE t = "SP" -> {S_SP}
      [] t = "RR" -> {S_RR}
      [] t = "CE" -> {S_CE}
      [] t = "PX" -> {S_PX, S_PX44}
      [] t = "ER" -> {S_ER}
      [] t = "ES" -> {S_ES}
      [] t = "PN" -> {S_PN}
      [] t = "SL" -> {S_SL, S_SL2, S_SLCont}
      [] t = "NM" -> {S_NM, S_NM2, S_NMCont}
      [] t = "CL" -> {S_CL}
      [] t = "PL" -> {S_PL}
      [] t = "TF" -> {S_TF, S_TFLong}
      [] t = "SF" -> {S_SF}
      [] t = "RE" -> {S_RE}

\* The offsets of the big-endian fields of the both-endian types.
BEOffsets(t, b) ==
    CASE t \in {"CL", "PL"} -> {8}
      [] t \in {"PN", "SF"} -> {8, 16}
      [] t = "CE" -> {8, 16, 24}
      [] t = "PX" -> {o \in {8, 16, 24, 32, 40} : o + 4 <= Len(b)}
      [] OTHER -> {}

\* b with the low-order byte of the big-endian field at offset o changed.
BEFlip(b, o) == [b EXCEPT ![o + 4] = (@ + 1) % 128]

\* b declaring one byte more, with and without the byte, and one byte less;
\* and b cut short.
LongBy1(b) == [b EXCEPT ![3] = @ + 1] \o <<0>>

DeclaredLong(b) == [b EXCEPT ![3] = @ + 1]

ShortBy1(b) == SubSeq([b EXCEPT ![3] = @ - 1], 1, Len(b) - 1)

CutShort(b) == SubSeq(b, 1, Len(b) - 1)

Malformed(t) ==
    UNION {{LongBy1(b), DeclaredLong(b), ShortBy1(b), CutShort(b)}
           \cup {BEFlip(b, o) : o \in BEOffsets(t, b)} : b \in WellFormed(t)}

\* The arguments of new, by type.
NewArgs(t) ==
    CASE t = "PX" -> {<<d, p>> : d \in BOOLEAN, p \in {None, Some(Run(1))}}
      [] t = "ER" -> {<<EXT_ID, EXT_DES, EXT_SRC>>, <<<<65>>, <<>>, <<66, 67>>>>}
      [] t = "SL" -> {<<None>>} \cup
                     {<<Some(JoinPath(cs))>> :
                         cs \in {<<Run(1)>>, <<Run(1), Run(1)>>, <<Dot>>,
                                 <<DotDot, Run(1)>>, <<<<>>, <<>>>>}}
      [] t = "NM" -> {<<NameOf(n)>> : n \in 0..3}
      [] t = "TF" -> {<<f>> : f \in {0, 1, TF_FLAGS, 127, 129, 142}}
      [] OTHER -> {<<>>}

\* The arguments of the setters, by type.
SetArgs(t) ==
    CASE t = "RR" -> {<<"PX">>, <<"NM">>, <<"TF">>, <<"ZZ">>}
      [] t = "SL" -> {<<Run(1)>>, <<Dot>>, <<Run(248)>>}
      [] t \in {"CL", "PL"} -> {<<30>>, <<70000>>}
      [] OTHER -> {<<>>}

\* One record object under test: how it was made and from what, the version
\* in use, whether a setter changed it, and what length, record and a parse
\* of that record gave.
Codec(t, how, input, v, obj) ==
    [type |-> t, how |-> how, input |-> input, rr_version |-> v, obj |-> obj,
     changed |-> FALSE, length |-> None, out |-> None, again |-> None]

VersionsOf(t) == IF t = "PX" THEN Versions ELSE {"1.09"}

-----------------------------------------------------------------------------
(* The entry specification: one RockRidge object, initialized by new or by  *)
(* parse, then queried.                                                    *)

Init ==
    /\ rr = RockRidge_init
    /\ codec = None
    /\ made = [op |-> "none", args |-> None, raised |-> FALSE, diverged |-> FALSE]
    /\ call = "init"
    /\ ret = None

\* A call that never returns is followed by no other.
Returned == ~made.diverged

\* The entry and the result a call of new or parse with arguments a leaves.
Made(op, a, r) ==
    /\ rr' = r.self
    /\ made' = [op |-> op, args |-> a, raised |-> r.raised,
                diverged |-> "diverged" \in DOMAIN r /\ r.diverged]
    /\ call' = op
    /\ ret' = [f \in DOMAIN r \ {"self"} |-> r[f]]

New ==
    /\ made.op = "none" /\ codec = None
    /\ \E a \in NewInputs : Made("new", a, RockRidge_new(rr, a))
    /\ UNCHANGED codec

Parse ==
    /\ made.op = "none" /\ codec = None
    /\ \E a \in ParseInputs :
          Made("parse", a,
               RockRidge_parse(rr, a.record, a.is_first_dir_record_of_root,
                               a.bytes_to_skip))
    /\ UNCHANGED codec

\* The result r of RockRidgeContinuation.parse, kept as the continuation.
ContMade(r, record) ==
    /\ rr' = SetCont(rr, r.self)
    /\ made' = [made EXCEPT !.op = "continuation_parse",
                            !.diverged = r.diverged]
    /\ ret' = [raised |-> r.raised, err |-> r.err, diverged |-> r.diverged,
               record |-> record]

\* The reader of an image parses the continuation data a parsed CE record
\* points to, once.
ContinuationParse ==
    /\ codec = None /\ made.op = "parse" /\ Returned
    /\ rr.initialized /\ HasCont(rr)
    /\ \E b \in ContAreas :
          ContMade(RockRidgeContinuation_parse(ContOf(rr), b, 0), b)
    /\ call' = "continuation_parse"
    /\ UNCHANGED codec

Name ==
    /\ codec = None /\ Returned
    /\ call' = "name"
    /\ ret' = RockRidge_name(rr)
    /\ UNCHANGED <<rr, codec, made>>

SymlinkPath ==
    /\ codec = None /\ Returned
    /\ call' = "symlink_path"
    /\ ret' = RockRidge_symlink_path(rr)
    /\ UNCHANGED <<rr, codec, made>>

Record ==
    /\ codec = None /\ Returned
    /\ call' = "record"
    /\ ret' = RockRidgeBase_record(rr)
    /\ UNCHANGED <<rr, codec, made>>

-----------------------------------------------------------------------------
(* One record object of a class, made by new or by parse, then changed by  *)
(* its setters, measured, encoded and decoded again.                       *)

CodecNew ==
    /\ made.op = "none" /\ codec = None
    /\ \E t \in NewTypes : \E a \in NewArgs(t) : \E v \in VersionsOf(t) :
          LET r == Record_new(t, Record_init(t), a)
          IN  /\ codec' = Some(Codec(t, "new", a, v, r.self))
              /\ ret' = [raised |-> r.raised, err |-> r.err]
    /\ call' = "codec_new"
    /\ UNCHANGED <<rr, made>>

CodecParse ==
    /\ made.op = "none" /\ codec = None
    /\ \E t \in RecordTypes : \E b \in WellFormed(t) \cup Malformed(t) :
       \E v \in VersionsOf(t) :
          LET r == Record_parse(t, Record_init(t), b)
          IN  /\ codec' = Some(Codec(t, "parse", b, v, r.self))
              /\ ret' = [raised |-> r.raised, err |-> r.err]
    /\ call' = "codec_parse"
    /\ UNCHANGED <<rr, made>>

CodecSet ==
    /\ codec # None /\ call \in {"codec_new", "codec_parse"}
    /\ The(codec).type \in SetterTypes
    /\ \E u \in SetArgs(The(codec).type) :
          LET r == Record_set(The(codec).type, The(codec).obj, u)
          IN  /\ codec' = Some([The(codec) EXCEPT !.obj = r.self,
                                                  !.changed = TRUE])
              /\ ret' = [raised |-> r.raised, err |-> r.err]
    /\ call' = "codec_set"
    /\ UNCHANGED <<rr, made>>

CodecLength ==
    /\ codec # None /\ The(codec).obj.initialized /\ IsNone(The(codec).length)
    /\ LET c == The(codec)
           l == Record_length(c.type, c.obj, c.rr_version)
       IN  /\ codec' = Some([c EXCEPT !.length = Some(l)])
           /\ ret' = Val(l)
    /\ call' = "codec_length"
    /\ UNCHANGED <<rr, made>>

CodecRecord ==
    /\ codec # None /\ IsNone(The(codec).out)
    /\ LET c == The(codec)
           r == Record_record(c.type, c.obj, c.rr_version)
       IN  /\ codec' = IF r.raised THEN codec
                       ELSE Some([c EXCEPT !.out = Some(r.val)])
           /\ ret' = r
    /\ call' = "codec_record"
    /\ UNCHANGED <<rr, made>>

CodecReparse ==
    /\ codec # None /\ ~IsNone(The(codec).out) /\ IsNone(The(codec).again)
    /\ LET c == The(codec)
           r == Record_parse(c.type, Record_init(c.type), The(c.out))
       IN  /\ codec' = Some([c EXCEPT !.again = Some(r)])
           /\ ret' = [raised |-> r.raised, err |-> r.err]
    /\ call' = "codec_reparse"
    /\ UNCHANGED <<rr, made>>

Next ==
    \/ New \/ Parse \/ ContinuationParse \/ Name \/ SymlinkPath \/ Record
    \/ CodecNew \/ CodecParse \/ CodecSet \/ CodecLength \/ CodecRecord
    \/ CodecReparse

Spec == Init /\ [][Next]_vars

-----------------------------------------------------------------------------
(* The life of an entry after it is built: the allocator gives the         *)
(* continuation its extent and offset and the entry its child and parent   *)
(* directory records, link counts change, links are updated and read.      *)

\* The cap on a link count.
MaxLinks == 3

\* The extent and the offsets the allocator hands out, and the extents of the
\* child and parent directory records.
NewExtents == {41}

Offsets == {0, 8}

LinkExtents == {50}

LifeNewInputs ==
    {Args(FALSE, name, FALSE, None, v, child, FALSE, parent, len) :
        name \in {None, Some(NameOf(3))}, v \in Versions,
        child \in BOOLEAN, parent \in BOOLEAN, len \in {34, 170, 216}}

LifeParseInputs ==
    {ParseArgs(b, FALSE, 0) :
        b \in {<<>>, S_PX, S_CL \o S_PL, S_CE, S_CE \o S_PX, S_CE \o S_CL,
               S_SL, S_CE \o S_SL, S_PX \o S_SP}}

LifeNew ==
    /\ made.op = "none" /\ codec = None
    /\ \E a \in LifeNewInputs : Made("new", a, RockRidge_new(rr, a))
    /\ UNCHANGED codec

LifeParse ==
    /\ made.op = "none" /\ codec = None
    /\ \E a \in LifeParseInputs :
          Made("parse", a,
               RockRidge_parse(rr, a.record, a.is_first_dir_record_of_root,
                               a.bytes_to_skip))
    /\ UNCHANGED codec

\* An entry was built, and its building call came back.
Built == codec = None /\ made.op # "none" /\ Returned

\* The state after a method that changes the entry: r is what it gave.
Changed(op, r) ==
    /\ rr' = r.self
    /\ ret' = [raised |-> r.raised, err |-> r.err]
    /\ call' = op
    /\ UNCHANGED <<codec, made>>

\* The state after a method that only reads the entry.
Asked(op, r) ==
    /\ ret' = r
    /\ call' = op
    /\ UNCHANGED <<rr, codec, made>>

\* "The new extent location will be set by _reshuffle_extents()", and so
\* will the offset.
AssignExtent ==
    /\ Built /\ rr.initialized /\ HasCont(rr)
    /\ \E e \in NewExtents, o \in Offsets :
          Changed("assign_extent",
                  Ok(SetCont(rr, [ContOf(rr) EXCEPT
                                     !.new_extent_loc = Some(e),
                                     !.continue_offset = o])))

\* The allocator notes the child directory record of a relocated entry.
SetChildLink ==
    /\ Built /\ rr.initialized
    /\ \E e \in LinkExtents :
          Changed("set_child_link", Ok([rr EXCEPT !.child_link = Some(e)]))

\* The allocator notes the parent directory record of a relocated entry.
SetParentLink ==
    /\ Built /\ rr.initialized
    /\ \E e \in LinkExtents :
          Changed("set_parent_link", Ok([rr EXCEPT !.parent_link = Some(e)]))

\* The link count that add_to_file_links would change, 1 when there is none.
LinksOf(self) ==
    IF ~IsNone(self.px_record) THEN The(self.px_record).posix_file_links
    ELSE IF HasCont(self) /\ ~IsNone(ContOf(self).px_record)
    THEN The(ContOf(self).px_record).posix_file_links
    ELSE 1

AddToFileLinks ==
    /\ Built /\ LinksOf(rr) < MaxLinks
    /\ Changed("add_to_file_links", RockRidge_add_to_file_links(rr))

RemoveFromFileLinks ==
    /\ Built /\ LinksOf(rr) > 0
    /\ Changed("remove_from_file_links", RockRidge_remove_from_file_links(rr))

UpdateChildLink ==
    /\ Built
    /\ Changed("update_child_link", RockRidge_update_child_link(rr))

UpdateParentLink ==
    /\ Built
    /\ Changed("update_parent_link", RockRidge_update_parent_link(rr))

ChildLinkBlockNum ==
    /\ Built
    /\ Asked("child_link_block_num", RockRidge_child_link_block_num(rr))

LifeNext ==
    \/ LifeNew \/ LifeParse \/ ContinuationParse \/ AssignExtent
    \/ SetChildLink \/ SetParentLink \/ AddToFileLinks \/ RemoveFromFileLinks
    \/ UpdateChildLink \/ UpdateParentLink \/ ChildLinkBlockNum \/ Record

LifeSpec == Init /\ [][LifeNext]_vars

-----------------------------------------------------------------------------
(* Initialization: new and parse called again on an object, on an entry or *)
(* on a record object, whether or not an earlier call initialized it, and  *)
(* the other methods called on it in either state.                         *)

NewAgain ==
    /\ Built
    /\ \E a \in LifeNewInputs : Changed("new_again", RockRidge_new(rr, a))

ParseAgain ==
    /\ Built
    /\ \E a \in LifeParseInputs :
          Changed("parse_again",
                  RockRidge_parse(rr, a.record, a.is_first_dir_record_of_root,
                                  a.bytes_to_skip))

\* The state after a method that changes the record object: r is what it
\* gave.
CodecChanged(op, c, r) ==
    /\ codec' = Some([c EXCEPT !.obj = r.self])
    /\ ret' = [raised |-> r.raised, err |-> r.err]
    /\ call' = op
    /\ UNCHANGED <<rr, made>>

CodecNewAgain ==
    /\ codec # None /\ The(codec).type \in NewTypes
    /\ \E a \in NewArgs(The(codec).type) :
          CodecChanged("codec_new_again", The(codec),
                       Record_new(The(codec).type, The(codec).obj, a))

CodecParseAgain ==
    /\ codec # None
    /\ \E b \in WellFormed(The(codec).type) :
          CodecChanged("codec_parse_again", The(codec),
                       Record_parse(The(codec).type, The(codec).obj, b))

\* RRCERecord.add_record of a PX record of the given length: setattr on the
\* continuation, which is None until the CE record is initialized.
CEAddRecord(self, length) ==
    IF IsNone(self.continuation_entry) THEN Raise(self, "AttributeError")
    ELSE Ok(RRCERecord_add_record(self, "px_record",
                                  Some(RRPXRecord_new(RRPXRecord_init, FALSE,
                                                      None).self),
                                  length))

\* One call of a setter on the record object, whatever its state.
CodecUse ==
    /\ codec # None /\ ~The(codec).changed
    /\ \/ /\ The(codec).type \in SetterTypes
          /\ \E u \in SetArgs(The(codec).type) :
                CodecChanged("codec_use", [The(codec) EXCEPT !.changed = TRUE],
                             Record_set(The(codec).type, The(codec).obj, u))
       \/ /\ The(codec).type = "CE"
          /\ CodecChanged("codec_use", [The(codec) EXCEPT !.changed = TRUE],
                          CEAddRecord(The(codec).obj, RRPXRecord_length("1.09")))

InitNext ==
    \/ LifeNew \/ LifeParse \/ NewAgain \/ ParseAgain
    \/ Name \/ SymlinkPath \/ Record
    \/ AddToFileLinks \/ RemoveFromFileLinks \/ SetChildLink
    \/ UpdateChildLink \/ UpdateParentLink \/ ChildLinkBlockNum
    \/ CodecNew \/ CodecParse \/ CodecNewAgain \/ CodecParseAgain
    \/ CodecUse \/ CodecRecord

InitSpec == Init /\ [][InitNext]_vars

-----------------------------------------------------------------------------
(* The properties                                                          *)

\* A constructed entry: new was called and returned.
Constructed == made.op = "new" /\ ~made.raised

\* C1: for every input for which new returns, the primary record's running
\* length before the final even padding is at most 254 bytes.
C1_LengthWithinBudget ==
    (call = "new" /\ ~ret.raised) => ret.before_pad <= 254

\* The length of one SL record for a path: 5, and per '/'-separated component
\* 2 and its bytes, a component '.' or '..' carrying none.
C2_SLLength(path) ==
    LET Seps == {k \in 1..Len(path) : path[k] = 47}
        Ends == Seps \cup {0, Len(path) + 1}
        Between == {c \in Ends \X Ends :
                       c[1] < c[2] /\ \A k \in Seps : ~(c[1] < k /\ k < c[2])}
        Dotted(n) == {c \in Between :
                         /\ c[2] - c[1] - 1 = n
                         /\ \A k \in (c[1] + 1)..(c[2] - 1) : path[k] = 46}
    IN  5 + 2 * (Cardinality(Seps) + 1) + (Len(path) - Cardinality(Seps))
        - Cardinality(Dotted(1)) - 2 * Cardinality(Dotted(2))

\* curr_dr_len and the lengths of the requested records: SP 7 and ER
\* 8 + 10 + 84 + 135 for the first record of the root, RR 5 (version 1.09
\* writes it), NM 5 + name, PX 36, SL, TF 5 + 3 * 7, CL 12, RE 4, PL 12.
C2_Estimate(a) ==
    a.curr_dr_len
    + (IF a.is_first_dir_record_of_root THEN 7 + 237 ELSE 0)
    + (IF a.rr_version = "1.09" THEN 5 ELSE 0)
    + (IF a.rr_name # None THEN 5 + Len(The(a.rr_name)) ELSE 0)
    + 36
    + (IF a.symlink_path # None THEN C2_SLLength(The(a.symlink_path)) ELSE 0)
    + 26
    + (IF a.rr_relocated_child THEN 12 ELSE 0)
    + (IF a.rr_relocated THEN 4 ELSE 0)
    + (IF a.rr_relocated_parent THEN 12 ELSE 0)

\* C2: after new returns, the entry owns a CE record, and with it the
\* continuation entry, if and only if the sum of curr_dr_len and the lengths
\* of the requested records exceeds 254.
C2_ContinuationIffEstimate ==
    Constructed =>
        /\ (rr.ce_record # None) <=> (C2_Estimate(made.args) > 254)
        /\ rr.ce_record # None => The(rr.ce_record).continuation_entry # None

\* new returned for an estimate of exactly 255 bytes, with a continuation.
C2_Witness ==
    /\ call = "new" /\ ~ret.raised /\ ret.tmp_dr_len = 255
    /\ rr.ce_record # None

\* C3: name() of a constructed entry returns exactly the name handed to new,
\* also when the name is split between the primary NM record and the NM
\* record of the continuation.
C3_NameRoundTrip ==
    (Constructed /\ made.args.rr_name # None /\ call = "name")
        => ret = Val(The(made.args.rr_name))

\* name() was asked of an entry whose name is split, with bytes on both sides.
C3_Witness ==
    /\ Constructed /\ call = "name" /\ ~ret.raised
    /\ rr.nm_record # None /\ The(rr.nm_record).posix_name # <<>>
    /\ HasCont(rr) /\ ContOf(rr).nm_record # None
    /\ The(ContOf(rr).nm_record).posix_name # <<>>

\* C4: symlink_path() of an entry constructed with a symlink path returns
\* exactly that path, whatever its components and however many SL records
\* hold it.
C4_SymlinkRoundTrip ==
    (Constructed /\ made.args.symlink_path # None /\ call = "symlink_path")
        => ret = Val(The(made.args.symlink_path))

RECURSIVE C5_Tags(_)
\* The tags of the records of a System-Use area, read as a reader does: a
\* record is its tag, its length byte and that many bytes.
C5_Tags(b) ==
    IF b = <<>> THEN <<>>
    ELSE IF Len(b) < 4 \/ b[3] < 4 \/ b[3] > Len(b) THEN <<"not a record">>
    ELSE <<SubSeq(b, 1, 2)>> \o C5_Tags(SubSeq(b, b[3] + 1, Len(b)))

\* The tags of the records an entry holds, in the order SP, RR, NM, PX, SL
\* (one per SL record), TF, CL, PL, RE, CE, ER.
C5_Held(e) ==
    LET one(slot, t) == IF e[slot] # None THEN <<Tag(t)>> ELSE <<>>
    IN  one("sp_record", "SP") \o one("rr_record", "RR") \o one("nm_record", "NM")
        \o one("px_record", "PX") \o [i \in 1..Len(e.sl_records) |-> Tag("SL")]
        \o one("tf_record", "TF") \o one("cl_record", "CL")
        \o one("pl_record", "PL") \o one("re_record", "RE")
        \o one("ce_record", "CE") \o one("er_record", "ER")

\* C5: what record() returns for an entry, primary or continuation, is the
\* records the entry holds in the order SP, RR, NM, PX, SL, TF, CL, PL, RE,
\* CE, ER, whatever order they were parsed or placed in, and nothing else.
C5_CanonicalOrder ==
    /\ (call = "record" /\ ~ret.raised) => C5_Tags(ret.val) = C5_Held(rr)
    /\ (Constructed /\ HasCont(rr)
        /\ ~RockRidgeBase_record(ContOf(rr)).raised)
           => C5_Tags(RockRidgeBase_record(ContOf(rr)).val) = C5_Held(ContOf(rr))

\* record() was asked of an entry parsed from TF and NM in that order, and
\* gave NM, then TF.
C5_Witness ==
    /\ made.op = "parse" /\ made.args.record = S_TF \o S_NM
    /\ call = "record" /\ ~ret.raised
    /\ ret.val = S_NM \o S_TF

\* The types whose 32-bit fields are written twice, little-endian then
\* big-endian, with the offsets of their big-endian halves.
C8_BothEndian == {"CL", "PL", "PX", "PN", "CE", "SF"}

C8_Halves(t, b) ==
    CASE t \in {"CL", "PL"} -> {8}
      [] t \in {"PN", "SF"} -> {8, 16}
      [] t = "CE" -> {8, 16, 24}
      [] t = "PX" -> {8, 16, 24, 32} \cup (IF b[3] = 44 THEN {40} ELSE {})

\* Some big-endian half of b is not the byte swap of its little-endian twin.
C8_Unequal(t, b) ==
    \E o \in C8_Halves(t, b) :
        /\ o + 4 <= Len(b)
        /\ \E i \in 0..3 : B(b, o - 4 + i) # B(b, o + 3 - i)

\* The type of the first record of an area, "" when it has none.
C8_FirstType(b) ==
    IF Len(b) >= 4 /\ \E t \in RecordTypes : Tag(t) = SubSeq(b, 1, 2)
    THEN CHOOSE t \in RecordTypes : Tag(t) = SubSeq(b, 1, 2)
    ELSE ""

\* A parsed PX record is encoded for the version its length belongs to: 36
\* bytes to version 1.09, 44 bytes to version 1.12.
C6_OwnVersion(c) ==
    (c.type = "PX" /\ c.how = "parse")
        => ((c.rr_version = "1.12") <=> (Len(c.input) = 44))

\* C6: for every record type, parsing the record of a valid value gives that
\* value back, and the record of a parsed well-formed byte string is that
\* byte string (PX in its 36- and 44-byte forms, SL also with a component
\* that continues).
C6_CodecRoundTrip ==
    (codec # None /\ C6_OwnVersion(The(codec))) =>
        LET c == The(codec)
        IN  /\ (c.how = "new" /\ c.again # None)
                => (~The(c.again).raised /\ The(c.again).self = c.obj)
            /\ (c.how = "parse" /\ c.input \in WellFormed(c.type))
                => c.obj.initialized
            /\ (c.how = "parse" /\ c.input \in WellFormed(c.type) /\ ~c.changed
                /\ c.out # None)
                => The(c.out) = c.input

\* C7: for every record of valid content, the value of its length function,
\* the su_len byte of its encoding and the number of bytes of the encoding
\* are equal; PX is 36 for version 1.09 and 44 for version 1.12.
C7_LengthAgreement ==
    codec # None =>
        LET c == The(codec)
        IN  (/\ c.how = "new" \/ c.input \in WellFormed(c.type)
             /\ c.length # None /\ c.out # None)
            => /\ The(c.length) = Len(The(c.out))
               /\ The(c.length) = The(c.out)[3]
               /\ c.type = "PX"
                  => The(c.length) = IF c.rr_version = "1.09" THEN 36 ELSE 44

\* C8: parsing a CL, PL, PX, PN, CE or SF record one of whose big-endian
\* halves is not the byte swap of its little-endian twin raises, and parsing
\* an area that starts with such a record raises: none is stored.
C8_UnequalHalvesRejected ==
    /\ (call = "codec_parse" /\ The(codec).type \in C8_BothEndian
        /\ C8_Unequal(The(codec).type, The(codec).input))
           => ret.raised
    /\ (call = "parse" /\ made.args.bytes_to_skip = 0
        /\ C8_FirstType(made.args.record) \in C8_BothEndian
        /\ C8_Unequal(C8_FirstType(made.args.record), made.args.record))
           => ret.raised

\* The types that have a length of their own, fixed or computed.
C9_Types ==
    {"SP", "RR", "CE", "PX", "ES", "PN", "CL", "PL", "SF", "RE", "ER", "TF", "SL"}

RECURSIVE C9_SLSum(_, _)
\* The sum of 2 + len_cp over the components of an SL record b from index i.
C9_SLSum(b, i) ==
    IF i + 1 > Len(b) THEN 0
    ELSE 2 + b[i + 1] + C9_SLSum(b, i + 2 + b[i + 1])

\* The number of set timestamp flags of a TF flags byte.
C9_Stamps(flags) == Cardinality({k \in 0..6 : (flags \div (2 ^ k)) % 2 = 1})

\* The lengths a record b of type t may declare.
C9_TypeLengths(t, b) ==
    CASE t = "SP" -> {7}
      [] t \in {"RR", "ES"} -> {5}
      [] t = "CE" -> {28}
      [] t = "PX" -> {36, 44}
      [] t = "PN" -> {20}
      [] t \in {"CL", "PL"} -> {12}
      [] t = "SF" -> {21}
      [] t = "RE" -> {4}
      [] t = "ER" -> {8 + b[5] + b[6] + b[7]}
      [] t = "TF" -> {5 + (IF b[5] >= 128 THEN 17 ELSE 7) * C9_Stamps(b[5])}
      [] t = "SL" -> {5 + C9_SLSum(b, 6)}

\* The bytes of a record of type t that its length is computed from.
C9_Header(t) == IF t = "ER" THEN 7 ELSE IF t \in {"TF", "SL"} THEN 5 ELSE 3

\* C9: parsing a record whose declared su_len differs from the length of its
\* type raises: the fixed lengths SP 7, RR 5, CE 28, PX 36 or 44, ES 5, PN 20,
\* CL 12, PL 12, SF 21, RE 4 and the computed lengths of ER, TF and SL.
C9_WrongLengthRejected ==
    (/\ call = "codec_parse" /\ The(codec).type \in C9_Types
     /\ Len(The(codec).input) >= C9_Header(The(codec).type)
     /\ The(codec).input[3] \notin
            C9_TypeLengths(The(codec).type, The(codec).input))
        => ret.raised

\* The types of which an entry holds at most one record.
C10_Singletons ==
    {"SP", "RR", "CE", "PX", "ER", "ES", "PN", "NM", "CL", "PL", "TF", "SF", "RE"}

RECURSIVE C10_Records(_)
\* The records of a System-Use area, each its length byte long.
C10_Records(b) ==
    IF Len(b) < 4 \/ b[3] < 4 \/ b[3] > Len(b) THEN <<>>
    ELSE <<SubSeq(b, 1, b[3])>> \o C10_Records(SubSeq(b, b[3] + 1, Len(b)))

\* The area b holds a second record of the singleton type t.
C10_Second(t, b) ==
    \E i, j \in 1..Len(C10_Records(b)) :
        /\ i < j
        /\ SubSeq(C10_Records(b)[i], 1, 2) = Tag(t)
        /\ SubSeq(C10_Records(b)[j], 1, 2) = Tag(t)

\* The SL records of the area b, decoded one by one in input order.
C10_SLDecoded(b) ==
    LET sl == SelectSeq(C10_Records(b), LAMBDA r : SubSeq(r, 1, 2) = Tag("SL"))
    IN  [i \in 1..Len(sl) |-> Record_parse("SL", Record_init("SL"), sl[i]).self]

\* C10: parsing an area that holds a second record of a singleton type (SP,
\* RR, CE, PX, ER, ES, PN, NM, CL, PL, TF, SF, RE) raises instead of replacing
\* the first; SL records repeat and are kept in input order.
C10_SecondSingletonRaises ==
    (call = "parse" /\ ~ret.diverged /\ made.args.bytes_to_skip = 0) =>
        /\ (\E t \in C10_Singletons : C10_Second(t, made.args.record))
               => ret.raised
        /\ ~ret.raised => rr.sl_records = C10_SLDecoded(made.args.record)

RECURSIVE C11_BadSP(_, _)
\* The area b holds, where a record starts, an SP record that is not legal:
\* not the first record of the root, fewer than 7 bytes left, su_len not 7 or
\* check bytes not 0xBE 0xEF.
C11_BadSP(b, first) ==
    IF Len(b) < 4 THEN FALSE
    ELSE \/ /\ SubSeq(b, 1, 2) = Tag("SP")
            /\ ~(first /\ Len(b) >= 7 /\ b[3] = 7 /\ b[5] = 190 /\ b[6] = 239)
         \/ /\ b[3] > 0 /\ b[3] < Len(b)
            /\ C11_BadSP(SubSeq(b, b[3] + 1, Len(b)), first)

C12_PXHolder == IF rr.px_record # None THEN rr ELSE ContOf(rr)

\* C12: an entry constructed with version 1.09 holds an RR record and a PX
\* record that it writes as 36 bytes; one constructed with version 1.12 holds
\* no RR record, in the primary entry or in the continuation, and a PX record
\* that it writes as 44 bytes, the serial number included.
C12_VersionRecords ==
    Constructed =>
        /\ made.args.rr_version = "1.09"
            => /\ rr.rr_record # None
                  \/ (HasCont(rr) /\ ContOf(rr).rr_record # None)
               /\ Len(PXDefaultRecord(The(C12_PXHolder.px_record)).val) = 36
        /\ made.args.rr_version = "1.12"
            => /\ rr.rr_record = None
               /\ HasCont(rr) => ContOf(rr).rr_record = None
               /\ Len(PXDefaultRecord(The(C12_PXHolder.px_record)).val) = 44

\* A constructed entry once the allocator has given its continuation, when it
\* has one, an extent.
C13_Assigned(self) ==
    IF HasCont(self)
    THEN SetCont(self, [ContOf(self) EXCEPT !.new_extent_loc = Some(40)])
    ELSE self

\* C13: the length new returns is curr_dr_len plus the number of bytes of the
\* entry's record(), rounded up to an even number; a plain file of a
\* three-byte name, version 1.09, curr_dr_len 34, not the first record of the
\* root, gets RR, NM, PX and TF inline and no CE.
C13_ReturnedLength ==
    (call = "new" /\ ~ret.raised) =>
        /\ ~RockRidgeBase_record(C13_Assigned(rr)).raised
        /\ ret.val =
              LET n == made.args.curr_dr_len
                       + Len(RockRidgeBase_record(C13_Assigned(rr)).val)
              IN  n + (n % 2)
        /\ made.args = Args(FALSE, Some(NameOf(3)), FALSE, None, "1.09",
                            FALSE, FALSE, FALSE, 34)
            => /\ C5_Held(rr) = <<Tag("RR"), Tag("NM"), Tag("PX"), Tag("TF")>>
               /\ ~HasCont(rr)

\* C14: on a constructed entry child_link_block_num() fails as long as no
\* extent was assigned to the child link (no child directory record is
\* noted yet, so update_child_link cannot have stored one), and a call that
\* follows a successful update_child_link succeeds and returns the block
\* number of the child directory record.
C14_ChildLinkBlock ==
    /\ []((made.op = "new" /\ call = "child_link_block_num"
           /\ rr.child_link = None) => ret.raised)
    /\ [][(made.op = "new" /\ call = "update_child_link" /\ ~ret.raised
           /\ call' = "child_link_block_num")
          => ret' = Val(The(rr.child_link))]_vars

\* C15: on an initialized entry symlink_path() succeeds exactly when
\* is_symlink() is true, that is when the primary entry or the continuation
\* holds an SL record, and it then returns the path of the primary SL
\* records followed by the continuation's.
C15_SymlinkPathTotal ==
    (call = "symlink_path" /\ rr.initialized) =>
        /\ ~ret.raised <=> RockRidge_is_symlink(rr).val
        /\ ~ret.raised =>
              ret.val = PyTo(SLPathJoin(rr.sl_records
                                        \o (IF HasCont(rr)
                                            THEN ContOf(rr).sl_records
                                            ELSE <<>>)), 0 - 1)

\* The entry that add_to_file_links (by = 1) or remove_from_file_links
\* (by = -1) must leave: the PX record of the primary entry, or else of the
\* continuation, with its link count changed by exactly by, all else as it
\* was; the entry itself when neither holds a PX record.
C16_Expected(self, by) ==
    IF ~IsNone(self.px_record)
    THEN [self EXCEPT !.px_record =
             Some([The(self.px_record) EXCEPT
                      !.posix_file_links =
                          The(self.px_record).posix_file_links + by])]
    ELSE IF HasCont(self) /\ ~IsNone(ContOf(self).px_record)
    THEN SetCont(self, [ContOf(self) EXCEPT !.px_record =
             Some([The(ContOf(self).px_record) EXCEPT
                      !.posix_file_links =
                          The(ContOf(self).px_record).posix_file_links + by])])
    ELSE self

C16_NoPX(self) ==
    /\ IsNone(self.px_record)
    /\ ~(HasCont(self) /\ ~IsNone(ContOf(self).px_record))

C16_Step(op, by) ==
    (call' = op /\ rr.initialized) =>
        /\ rr' = C16_Expected(rr, by)
        /\ ret'.raised <=> C16_NoPX(rr)
        /\ ret'.raised => ret'.err = "PyIsoException"

\* C16: add_to_file_links (remove_from_file_links) changes by exactly +1
\* (-1) the link count of the PX record of the primary entry, or of the
\* continuation when the primary entry has none, and nothing else; when
\* neither holds a PX record, with or without a CE record, it raises the
\* library's error and changes nothing.
C16_FileLinks ==
    [][/\ C16_Step("add_to_file_links", 1)
       /\ C16_Step("remove_from_file_links", 0 - 1)]_vars

\* The entry that update_child_link (slot "cl_record", block field
\* "child_log_block_num") or update_parent_link must leave when the link is
\* noted: the record of the primary entry, or else of the continuation,
\* holding the extent of the linked directory record, all else as it was.
C17_Expected(self, slot, field, link) ==
    IF ~IsNone(self[slot])
    THEN [self EXCEPT ![slot] = Some([The(self[slot]) EXCEPT ![field] = link])]
    ELSE SetCont(self, [ContOf(self) EXCEPT
             ![slot] = Some([The(ContOf(self)[slot]) EXCEPT ![field] = link])])

C17_Held(self, slot) ==
    \/ ~IsNone(self[slot])
    \/ HasCont(self) /\ ~IsNone(ContOf(self)[slot])

C17_Step(op, slot, field, link) ==
    (call' = op /\ rr.initialized) =>
        IF link # None /\ C17_Held(rr, slot)
        THEN ~ret'.raised /\ rr' = C17_Expected(rr, slot, field, The(link))
        ELSE ret'.raised /\ rr' = rr

\* C17: update_child_link (update_parent_link) writes the extent of the
\* child (parent) directory record into the CL (PL) record of the primary
\* entry, or of the continuation when the primary entry has none, and
\* changes no other record; when neither holds the record or no child
\* (parent) was noted it raises and changes nothing.
C17_UpdateLinks ==
    [][/\ C17_Step("update_child_link", "cl_record", "child_log_block_num",
                   rr.child_link)
       /\ C17_Step("update_parent_link", "pl_record", "parent_log_block_num",
                   rr.parent_link)]_vars

C17_Witness ==
    /\ call = "update_child_link" /\ ~ret.raised
    /\ IsNone(rr.cl_record) /\ HasCont(rr)
    /\ ContOf(rr).cl_record # None
    /\ Some(The(ContOf(rr).cl_record).child_log_block_num) = rr.child_link
    /\ ContOf(rr).pl_record # None
    /\ The(ContOf(rr).pl_record).parent_log_block_num = 0

\* C19: in every state of a continuation, made by the parse of a CE record
\* or by construction, before and after the allocator gives it an extent,
\* exactly one of its origin extent and its assigned extent is set.
C19_ExactlyOneExtent ==
    (rr.initialized /\ HasCont(rr)) =>
        (IsNone(ContOf(rr).orig_extent_loc)
            # IsNone(ContOf(rr).new_extent_loc))

\* C19 as the code has it: the origin extent is set exactly on a
\* continuation made by the parse of a CE record, where it is the extent the
\* record names, and stays as it is; the assigned extent is unset after
\* construction and after a parse and set once the allocator has assigned
\* it. So a constructed continuation has neither set before the assignment,
\* and a parsed one has both set after it.
C19_ExtentsSet ==
    (rr.initialized /\ HasCont(rr)) =>
        /\ made.op = "new" => IsNone(ContOf(rr).orig_extent_loc)
        /\ made.op # "new" =>
              ContOf(rr).orig_extent_loc = Some(UnpackL(S_CE, 4))
        /\ call \in {"new", "parse", "continuation_parse"} =>
              IsNone(ContOf(rr).new_extent_loc)
        /\ call = "assign_extent" =>
              ContOf(rr).new_extent_loc \in {Some(e) : e \in NewExtents}

C19_Witness ==
    /\ made.op # "new" /\ call = "assign_extent"
    /\ ~IsNone(ContOf(rr).orig_extent_loc)
    /\ ~IsNone(ContOf(rr).new_extent_loc)

\* The CE record that names extent loc, offset off and length len.
C20_CE(loc, off, len) ==
    Tag("CE") \o <<28, 1>> \o PackL(loc) \o PackSwabL(loc)
              \o PackL(off) \o PackSwabL(off) \o PackL(len) \o PackSwabL(len)

\* The extent a CE record must name: the assigned one, and the parsed origin
\* only when none was assigned.
C20_Extent(c) ==
    IF ~IsNone(c.new_extent_loc) THEN The(c.new_extent_loc)
    ELSE The(c.orig_extent_loc)

\* b holds the bytes ce, at some place.
C20_Holds(b, ce) ==
    \E i \in 0..(Len(b) - Len(ce)) : SubSeq(b, i + 1, i + Len(ce)) = ce

C18_EntryMethods ==
    {"name", "symlink_path", "record", "add_to_file_links",
     "remove_from_file_links", "update_child_link", "update_parent_link",
     "child_link_block_num"}

\* C18: initialization is one-shot. On an entry and on a record object of
\* every class, new or parse called on an initialized object raises and
\* leaves the object as it was, and record() or another method called on an
\* object that is not initialized raises; whatever calls came before.
C18_OneShot ==
    [][/\ (call' \in {"new_again", "parse_again"} /\ rr.initialized)
             => (ret'.raised /\ rr' = rr)
       /\ (call' \in C18_EntryMethods /\ ~rr.initialized) => ret'.raised
       /\ (call' \in {"codec_new_again", "codec_parse_again"}
           /\ The(codec).obj.initialized)
             => (ret'.raised /\ The(codec').obj = The(codec).obj)
       /\ (call' \in {"codec_use", "codec_record"}
           /\ ~The(codec).obj.initialized) => ret'.raised]_vars

C18_Witness ==
    /\ call = "parse_again" /\ ret.raised /\ rr.initialized
    /\ made.op = "new" /\ HasCont(rr)

\* Bit b of the flags byte is set.
C21_Bit(flags, b) == (flags \div (2 ^ b)) % 2 = 1

\* The RR record of the entry, in the primary entry or in the continuation.
C21_RR(self) ==
    IF ~IsNone(self.rr_record) THEN The(self.rr_record)
    ELSE The(ContOf(self).rr_record)

\* C21: after new with version 1.09 the RR record, in the primary entry or
\* in the continuation, has the bit of each of NM, PX, SL and TF that was
\* placed, wherever that field went.
C21_PresenceBits ==
    (call = "new" /\ ~ret.raised /\ made.args.rr_version = "1.09") =>
        LET flags == C21_RR(rr).rr_flags
        IN  /\ C21_Bit(flags, RRFieldBit("PX"))
            /\ C21_Bit(flags, RRFieldBit("TF"))
            /\ made.args.rr_name # None => C21_Bit(flags, RRFieldBit("NM"))
            /\ made.args.symlink_path # None
                  => C21_Bit(flags, RRFieldBit("SL"))

\* The TF record of the entry, in the primary entry or in the continuation.
C22_TF(self) ==
    IF ~IsNone(self.tf_record) THEN The(self.tf_record)
    ELSE The(ContOf(self).tf_record)

\* The plain file without a name, of version 1.12, after a short directory
\* record: its estimate is the record, the PX record and the TF record.
C22_Plain == Args(FALSE, None, FALSE, None, "1.12", FALSE, FALSE, FALSE, 34)

\* C22: the TF record made by new, and the TF length in the estimate, use
\* a fixed flag set that enables the creation, access, modification and
\* attribute-change timestamps, four timestamps of 7 bytes.
C22_FourStamps ==
    (call = "new" /\ ~ret.raised) =>
        /\ \A i \in 1..4 : C22_TF(rr).times[i] # None
        /\ RRTFRecord_length(C22_TF(rr).time_flags) = 5 + 4 * 7
        /\ made.args = C22_Plain => ret.tmp_dr_len = 34 + 36 + (5 + 4 * 7)

\* C22 as the code has it: the fixed flag set 0x0e enables the access,
\* modification and attribute-change timestamps and not the creation
\* timestamp, three timestamps of 7 bytes, so the TF record is 26 bytes
\* long, in the entry and in the estimate.
C22_ThreeStamps ==
    (call = "new" /\ ~ret.raised) =>
        /\ C22_TF(rr).time_flags = 14
        /\ \A i \in 1..7 : (C22_TF(rr).times[i] # None) <=> (i \in {2, 3, 4})
        /\ RRTFRecord_record(C22_TF(rr)).raised = FALSE
        /\ Len(RRTFRecord_record(C22_TF(rr)).val) = 5 + 3 * 7
        /\ RRTFRecord_record(C22_TF(rr)).val[3] = 5 + 3 * 7
        /\ made.args = C22_Plain => ret.tmp_dr_len = 34 + 36 + (5 + 3 * 7)

C22_Witness ==
    /\ call = "new" /\ ~ret.raised /\ made.args = C22_Plain
    /\ ~IsNone(rr.tf_record) /\ ret.val = 96

\* The running length of the primary record when new comes to the NM record:
\* after the CE record if one is pre-allocated, the SP and the RR record.
C23_Used(a) ==
    NewRR(NewSP(NewPreallocate(NewSt(RockRidge_init, a.curr_dr_len), a), a),
          a).this_dr_len

\* The running length right after the NM placement.
C23_After(a) ==
    NewNM(NewRR(NewSP(NewPreallocate(NewSt(RockRidge_init, a.curr_dr_len), a),
                      a), a), a).this_dr_len

\* C23: when the name does not fit inline (used + 5 + len(name) > 254) the
\* primary NM record carries exactly the first 254 - used - 5 bytes of the
\* name, none when that is 0, with the continued flag set, the
\* continuation's NM record carries the rest with the flag clear, and the
\* running length right after the NM placement is exactly 254.
C23_NameSplit ==
    (/\ call = "new" /\ ~ret.raised /\ made.args.rr_name # None
     /\ C23_Used(made.args) + 5 + Len(The(made.args.rr_name)) > 254) =>
        LET name == The(made.args.rr_name)
            k == 254 - C23_Used(made.args) - 5
        IN  /\ k >= 0
            /\ The(rr.nm_record).posix_name = SubSeq(name, 1, k)
            /\ The(rr.nm_record).posix_name_flags = 1
            /\ The(ContOf(rr).nm_record).posix_name
                  = SubSeq(name, k + 1, Len(name))
            /\ The(ContOf(rr).nm_record).posix_name_flags = 0
            /\ C23_After(made.args) = 254

\* Every SL record of the list encodes in at most 255 bytes.
C24_Fit(sl_records) ==
    \A i \in 1..Len(sl_records) :
        RRSLRecord_length(sl_records[i].symlink_components) <= 255

\* C24: for any symlink path new either raises or leaves only SL records
\* whose encoded length, 5 and the lengths of the components, is at most
\* 255, so that it fits the su_len byte; a component too long for that is
\* rejected, not stored.
C24_SLWithinByte ==
    (call = "new" /\ ~ret.raised) =>
        /\ C24_Fit(rr.sl_records)
        /\ HasCont(rr) => C24_Fit(ContOf(rr).sl_records)

\* C25: parsing ends on every finite buffer: _parse returns with the entry
\* initialized or raises after finitely many turns of its loop, also when a
\* record declares su_len 0.
C25_ParseTerminates ==
    (call \in {"parse", "continuation_parse"}) =>
        /\ ~ret.diverged
        /\ ret.raised \/ rr.initialized

\* What parsing the suffix b[k:] with nothing to skip gives on a new entry.
C26_Suffix(a) ==
    RockRidge_parse(RockRidge_init, PyFrom(a.record, a.bytes_to_skip),
                    a.is_first_dir_record_of_root, 0)

\* C26: parsing a buffer b with bytes_to_skip = k has the outcome of parsing
\* b[k:] with bytes_to_skip = 0: an error in both, or the same records
\* stored; so a well-formed area behind k skipped bytes is accepted.
C26_SkipIsSuffix ==
    (call = "parse" /\ ~ret.diverged /\ ~C26_Suffix(made.args).diverged) =>
        /\ ret.raised <=> C26_Suffix(made.args).raised
        /\ ~ret.raised =>
              [rr EXCEPT !.bytes_to_skip = 0]
                 = [C26_Suffix(made.args).self EXCEPT !.bytes_to_skip = 0]

\* The encoded length of the record in a slot, 0 for an empty slot.
C27_Len(slot, Encode(_)) ==
    IF IsNone(slot) THEN 0 ELSE Len(Encode(The(slot)).val)

\* The encoded lengths of all the records an entry holds.
C27_Stored(self) ==
    C27_Len(self.sp_record, RRSPRecord_record)
    + C27_Len(self.rr_record, RRRRRecord_record)
    + C27_Len(self.nm_record, RRNMRecord_record)
    + C27_Len(self.px_record, PXDefaultRecord)
    + Len(SLRecords(self.sl_records).val)
    + C27_Len(self.tf_record, RRTFRecord_record)
    + C27_Len(self.cl_record, RRCLRecord_record)
    + C27_Len(self.pl_record, RRPLRecord_record)
    + C27_Len(self.re_record, RRRERecord_record)
    + C27_Len(self.ce_record, RRCERecord_record)
    + C27_Len(self.er_record, RRERRecord_record)
    + C27_Len(self.es_record, RRESRecord_record)
    + C27_Len(self.pn_record, RRPNRecord_record)
    + C27_Len(self.sf_record, RRSFRecord_record)

\* C27: record() emits every record the entry holds: after a successful
\* parse each stored record, the PN, ES and SF records too, is in the
\* output, whose length is the sum of the encoded lengths of the stored
\* records.
C27_RecordEmitsAll ==
    (call = "record" /\ made.op = "parse" /\ rr.initialized /\ ~ret.raised) =>
        /\ rr.pn_record # None =>
              C20_Holds(ret.val, RRPNRecord_record(The(rr.pn_record)).val)
        /\ rr.es_record # None =>
              C20_Holds(ret.val, RRESRecord_record(The(rr.es_record)).val)
        /\ rr.sf_record # None =>
              C20_Holds(ret.val, RRSFRecord_record(The(rr.sf_record)).val)
        /\ Len(ret.val) = C27_Stored(rr)

\* C28: after new returns with a continuation, the continuation's
\* accumulated length, which the CE record names, is the byte length of the
\* continuation's own record() output, for every input, split names and
\* split or spilled SL records included.
C28_ContinuationLength ==
    (call = "new" /\ ~ret.raised /\ HasCont(rr)) =>
        /\ ~RockRidgeBase_record(ContOf(rr)).raised
        /\ Len(RockRidgeBase_record(ContOf(rr)).val)
              = ContOf(rr).continue_length

\* C29: new never places a record in a continuation that does not exist:
\* whenever the estimate is at most 254, so that no CE record is
\* pre-allocated, new returns and every requested record is in the primary
\* entry, the name unsplit and all the components of the symlink in one SL
\* record, for every input with a valid version.
C29_AllInline ==
    (call = "new" /\ made.args.rr_version \in Versions
     /\ ret.tmp_dr_len <= 254) =>
        /\ ~ret.raised /\ ret.err # "AttributeError"
        /\ rr.ce_record = None
        /\ (rr.sp_record # None) <=> made.args.is_first_dir_record_of_root
        /\ (rr.er_record # None) <=> made.args.is_first_dir_record_of_root
        /\ (rr.rr_record # None) <=> (made.args.rr_version = "1.09")
        /\ (rr.nm_record # None) <=> (made.args.rr_name # None)
        /\ made.args.rr_name # None =>
              /\ The(rr.nm_record).posix_name = The(made.args.rr_name)
              /\ The(rr.nm_record).posix_name_flags = 0
        /\ rr.px_record # None /\ rr.tf_record # None
        /\ Len(rr.sl_records) = (IF made.args.symlink_path # None THEN 1 ELSE 0)
        /\ made.args.symlink_path # None =>
              rr.sl_records[1].symlink_components
                 = PySplit(The(made.args.symlink_path), 47)
        /\ (rr.cl_record # None) <=> made.args.rr_relocated_child
        /\ (rr.re_record # None) <=> made.args.rr_relocated
        /\ (rr.pl_record # None) <=> made.args.rr_relocated_parent

\* new returned for an estimate of exactly 254 bytes with a symlink, the last
\* record ending at the limit.
C29_Witness ==
    /\ call = "new" /\ ~ret.raised /\ rr.ce_record = None
    /\ ret.tmp_dr_len = 254 /\ ret.before_pad = 254
    /\ Len(rr.sl_records) = 1

\* The records an entry holds and whether it is initialized.
C30_Held(self) ==
    <<self.initialized, self.sp_record, self.rr_record, self.ce_record,
      self.px_record, self.er_record, self.es_record, self.pn_record,
      self.sl_records, self.nm_record, self.cl_record, self.pl_record,
      self.tf_record, self.sf_record, self.re_record>>

\* C30: a parse call that raises leaves the entry exactly as it was before
\* the call.  For the first call on a constructed entry: when parse raises,
\* the entry is still uninitialized and every record slot is as __init__
\* left it (no singleton slot filled, no SL record appended), so that a
\* later successful parse on the same entry starts from the constructed
\* entry and holds only the records of the later input.
C30_FailedParseKeepsNothing ==
    (call = "parse" /\ ret.raised)
        => C30_Held(rr) = C30_Held(RockRidge_init)

====
